---- MODULE Spec2Model ----
(***************************************************************************)
(* Model of the Ollama translation layer of gemini-cli-ollama: the model   *)
(* capability registry, the tool translator, the response validator and    *)
(* the HTTP client (retry loop and streaming frame reader).                *)
(*                                                                         *)
(* JavaScript strings that the code inspects character by character        *)
(* (model ids, tool names) are sequences of one-character strings.         *)
(* The JavaScript value undefined of an optional string field is the       *)
(* string "undefined".                                                     *)
(***************************************************************************)
EXTENDS Integers, Sequences, FiniteSets, TLC

VARIABLES
    trModel,     \* model id handed to the registry / the tool translator
    trTools,     \* Tool[] handed to the tool translator
    trPc,        \* "input" | "looked" | "translated" | "translatedToModel"
    trCaps,      \* value returned by getModelCapabilities
    trOut,       \* OllamaTool[] returned by the tool translation
    trWarnings,  \* warnings of translateToolsToModel
    rvModel,     \* config.defaultModel / modelName of the response validation
    rvRegistered,\* registeredTools of the response validation
    rvResponse,  \* the backend's chat response (untrusted)
    rvPc,        \* "input" | "validated" | "generated"
    rvResult,    \* what the validation returned, or that it threw
    rqKind,      \* "json" (makeRequest) | "stream" (makeStreamingRequest)
    rqMaxRetries,\* this.maxRetries
    rqAttempt,   \* the loop variable attempt
    rqPc,        \* "start" | "fetching" | "parsing" | "backoff" | "returned" | "thrown"
    rqLog,       \* outcome of every HTTP attempt issued so far, in order
    rqDelay,     \* delay of the backoff wait in progress, in ms (0: none)
    rqError,     \* the error thrown to the caller
    rqCancelled, \* the caller's cancellation signal has been raised
    stWire,      \* everything the backend sends on the response body
    stPos,       \* number of tokens of stWire handed out by reader.read()
    stBuffer,    \* the local variable buffer
    stLines,     \* lines of the current for loop not yet visited
    stFrame,     \* streamResponse of the yield the generator is suspended at
    stPc,        \* "start" | "requesting" | "reading" | "yielded" | "finished"
    stReader,    \* "none" | "locked" | "released"
    stYielded,   \* every response yielded to the consumer, in order
    stOutcome,   \* "running" | "completed" | "threw"
    stConsumer,  \* "iterating" | "returned" | "thrown"
    ogPc,        \* translateStreamingResponses: "start" | "awaiting" |
                 \* "yielded" | "yieldedInCatch" | "finished"
    ogYielded,   \* what translateStreamingResponses has yielded, in order
    dsDescription,\* description of the function declaration to convert
    dsCaps,      \* capabilities of the model the tool is converted for
    dsPc,        \* "input" | "converted"
    dsOut, \* description of the converted tool
    opConfig, \* request.config: the generation config of the request
    opAdvanced, \* config.advancedOptions of the Ollama configuration
    opPc, \* "input" | "converter" | "client"
    opOut, \* options of the outbound chat request
    ctModel, \* modelName of the running generateContentStream call
    ctRegistered, \* this.registeredTools of the content generator
    ctAtStart, \* history: this.registeredTools when the call was started
    ctFrames, \* items the client's stream has still to deliver
    ctYielded, \* every item taken so far with the response yielded for it
    ctPc, \* "idle" | "streaming" | "finished"
    snRequest, \* the request as the caller built it
    snAfter, \* the caller's request object after the call
    snOut, \* the request sanitizeRequest returned
    snMessages, \* messages convertToOllamaRequest built from snOut
    snPc, \* "input" | "sanitized" | "converted"
    dgStep, \* currentStep: "baseUrl" | "modelSelection" | "timeoutConfig" | "testing" | "summary"
    dgIsLoading, \* isLoading
    dgError, \* error: "null" or the message set last
    dgWarnings, \* warnings: "none" or the list set last
    dgConfigState, \* configState: baseUrl, selectedModel, availableModels, timeout
    dgBaseUrlInput, \* baseUrlInput
    dgSelectedModelIndex, \* selectedModelIndex
    dgTimeoutInput, \* timeoutInput
    dgPending, \* the asynchronous call the dialog is waiting for
    dgSelected, \* the model the user confirmed in the list, <<>> before
    dgResult \* what the dialog reported: onComplete(config) or onCancel()

trVars == <<trModel, trTools, trPc, trCaps, trOut, trWarnings>>

rvVars == <<rvModel, rvRegistered, rvResponse, rvPc, rvResult>>

rqVars == <<rqKind, rqMaxRetries, rqAttempt, rqPc, rqLog, rqDelay, rqError,
            rqCancelled>>

stVars == <<stWire, stPos, stBuffer, stLines, stFrame, stPc, stReader,
            stYielded, stOutcome, stConsumer>>

ogVars == <<ogPc, ogYielded>>

dsVars == <<dsDescription, dsCaps, dsPc, dsOut>>

opVars == <<opConfig, opAdvanced, opPc, opOut>>

ctVars == <<ctModel, ctRegistered, ctAtStart, ctFrames, ctYielded, ctPc>>

snVars == <<snRequest, snAfter, snOut, snMessages, snPc>>

dgVars == <<dgStep, dgIsLoading, dgError, dgWarnings, dgConfigState, dgBaseUrlInput, dgSelectedModelIndex, dgTimeoutInput, dgPending, dgSelected, dgResult>>

vars == <<trVars, rvVars, rqVars, stVars, ogVars, dsVars,
         opVars,
         ctVars,
         snVars,
         dgVars>>

\* a component that takes no part in a specification stays switched off
TrIdle ==
    /\ trModel = <<>>
    /\ trTools = <<>>
    /\ trPc = "off"
    /\ trCaps = [kind |-> "undefined"]
    /\ trOut = <<>>
    /\ trWarnings = <<>>

RvIdle ==
    /\ rvModel = <<>>
    /\ rvRegistered = <<>>
    /\ rvResponse = [kind |-> "undefined"]
    /\ rvPc = "off"
    /\ rvResult = [threw |-> FALSE]

RqIdle ==
    /\ rqKind = "off"
    /\ rqMaxRetries = 0
    /\ rqAttempt = 0
    /\ rqPc = "off"
    /\ rqLog = <<>>
    /\ rqDelay = 0
    /\ rqError = [kind |-> "undefined"]
    /\ rqCancelled = FALSE

OgIdle ==
    /\ ogPc = "off"
    /\ ogYielded = <<>>

DsIdle ==
    /\ dsDescription = [present |-> FALSE, text |-> <<>>]
    /\ dsCaps = [kind |-> "undefined"]
    /\ dsPc = "off"
    /\ dsOut = <<>>

OpIdle ==
    /\ opConfig = [kind |-> "undefined"]
    /\ opAdvanced = [kind |-> "undefined"]
    /\ opPc = "off"
    /\ opOut = [kind |-> "undefined"]

CtIdle ==
    /\ ctModel = <<>>
    /\ ctRegistered = <<>>
    /\ ctAtStart = <<>>
    /\ ctFrames = <<>>
    /\ ctYielded = <<>>
    /\ ctPc = "off"

SnIdle ==
    /\ snRequest = [kind |-> "undefined"]
    /\ snAfter = [kind |-> "undefined"]
    /\ snOut = [kind |-> "undefined"]
    /\ snMessages = <<>>
    /\ snPc = "off"

DgIdle ==
    /\ dgStep = "off"
    /\ dgIsLoading = FALSE
    /\ dgError = "null"
    /\ dgWarnings = "none"
    /\ dgConfigState = [baseUrl |-> <<>>, selectedModel |-> <<>>, availableModels |-> <<>>, timeout |-> 0]
    /\ dgBaseUrlInput = <<>>
    /\ dgSelectedModelIndex = 0
    /\ dgTimeoutInput = <<>>
    /\ dgPending = [kind |-> "none"]
    /\ dgSelected = <<>>
    /\ dgResult = [kind |-> "off"]

StIdle ==
    /\ stWire = <<>>
    /\ stPos = 0
    /\ stBuffer = <<>>
    /\ stLines = <<>>
    /\ stFrame = [kind |-> "undefined"]
    /\ stPc = "off"
    /\ stReader = "none"
    /\ stYielded = <<>>
    /\ stOutcome = "running"
    /\ stConsumer = "iterating"

(***************************************************************************)
(* Strings                                                                 *)
(***************************************************************************)
UpperAlphabet ==
    <<"A", "B", "C", "D", "E", "F", "G", "H", "I", "J", "K", "L", "M",
      "N", "O", "P", "Q", "R", "S", "T", "U", "V", "W", "X", "Y", "Z">>

LowerAlphabet ==
    <<"a", "b", "c", "d", "e", "f", "g", "h", "i", "j", "k", "l", "m",
      "n", "o", "p", "q", "r", "s", "t", "u", "v", "w", "x", "y", "z">>

Digits ==
    <<"0", "1", "2", "3", "4", "5", "6", "7", "8", "9">>

IsDigit(c) ==
    \E i \in 1..Len(Digits) : Digits[i] = c

LowerChar(c) ==
    IF \E i \in 1..Len(UpperAlphabet) : UpperAlphabet[i] = c
    THEN LowerAlphabet[CHOOSE i \in 1..Len(UpperAlphabet) : UpperAlphabet[i] = c]
    ELSE c

\* String.prototype.toLowerCase
toLowerCase(s) ==
    [i \in 1..Len(s) |-> LowerChar(s[i])]

\* String.prototype.includes
Includes(s, sub) ==
    \E i \in 0..(Len(s) - Len(sub)) : SubSeq(s, i + 1, i + Len(sub)) = sub

\* String.prototype.endsWith
EndsWith(s, suf) ==
    /\ Len(suf) <= Len(s)
    /\ SubSeq(s, Len(s) - Len(suf) + 1, Len(s)) = suf

\* s.replace(/<suf>$/, '')
StripSuffix(s, suf) ==
    IF EndsWith(s, suf) THEN SubSeq(s, 1, Len(s) - Len(suf)) ELSE s

\* s.replace(/[:@]/g, '-')
ReplaceColonAt(s) ==
    [i \in 1..Len(s) |-> IF s[i] \in {":", "@"} THEN "-" ELSE s[i]]

\* s matches /-\d+[bm]$/ with the "-" at position p
SizeSuffixAt(s, p) ==
    /\ p >= 1
    /\ p + 2 <= Len(s)
    /\ s[p] = "-"
    /\ s[Len(s)] \in {"b", "m"}
    /\ \A i \in (p + 1)..(Len(s) - 1) : IsDigit(s[i])

\* s.replace(/-\d+[bm]$/, '')
StripSizeSuffix(s) ==
    IF \E p \in 1..Len(s) : SizeSuffixAt(s, p)
    THEN SubSeq(s, 1, (CHOOSE p \in 1..Len(s) : SizeSuffixAt(s, p)) - 1)
    ELSE s

S_instruct ==
    <<"-", "i", "n", "s", "t", "r", "u", "c", "t">>

S_chat ==
    <<"-", "c", "h", "a", "t">>

S_latest ==
    <<"-", "l", "a", "t", "e", "s", "t">>

normalizeModelName(modelName) ==
    StripSuffix(
        StripSuffix(
            StripSuffix(
                StripSizeSuffix(ReplaceColonAt(toLowerCase(modelName))),
                S_instruct),
            S_chat),
        S_latest)

(***************************************************************************)
(* The capability table                                                    *)
(***************************************************************************)
K_mistral_latest ==
    <<"m", "i", "s", "t", "r", "a", "l", ":", "l", "a", "t", "e", "s", "t">>

Caps(fmt, max, par, str, parser, style, multi) ==
    [kind |-> "caps", supportsTools |-> TRUE, toolFormat |-> fmt,
     maxTools |-> max, supportsParallel |-> par, supportsStreaming |-> str,
     customParser |-> parser, promptStyle |-> style, multiTurnSupport |-> multi]

\* Object.entries(MODEL_CAPABILITIES): the own keys in insertion order
MODEL_CAPABILITIES ==
    <<<<<<"q", "w", "e", "n", "2", ".", "5", "-", "c", "o", "d", "e", "r", ":", "3", "2", "b">>,
        Caps("hermes", 64, TRUE, TRUE, "qwen3coder", "hermes", "good")>>,
      <<<<"q", "w", "e", "n", "2", ".", "5", "-", "c", "o", "d", "e", "r", ":", "1", "4", "b">>,
        Caps("hermes", 32, TRUE, TRUE, "qwen3coder", "hermes", "good")>>,
      <<<<"q", "w", "e", "n", "2", ".", "5", "-", "c", "o", "d", "e", "r", ":", "7", "b">>,
        Caps("hermes", 16, FALSE, TRUE, "qwen3coder", "hermes", "good")>>,
      <<K_mistral_latest, Caps("openai", 128, TRUE, FALSE, "undefined", "standard", "excellent")>>,
      <<<<"m", "i", "s", "t", "r", "a", "l", "-", "n", "e", "m", "o">>,
        Caps("openai", 64, TRUE, FALSE, "undefined", "standard", "excellent")>>,
      <<<<"c", "o", "d", "e", "s", "t", "r", "a", "l">>,
        Caps("openai", 32, TRUE, FALSE, "undefined", "standard", "good")>>,
      <<<<"d", "e", "e", "p", "s", "e", "e", "k", "-", "c", "h", "a", "t">>,
        Caps("openai", 128, TRUE, FALSE, "undefined", "standard", "poor")>>,
      <<<<"d", "e", "e", "p", "s", "e", "e", "k", "-", "r", "e", "a", "s", "o", "n", "e", "r">>,
        Caps("openai", 64, TRUE, FALSE, "undefined", "standard", "poor")>>,
      <<<<"k", "i", "m", "i", "-", "k", "2">>,
        Caps("openai", 64, TRUE, TRUE, "undefined", "agentic", "excellent")>>,
      <<<<"l", "l", "a", "m", "a", "3", ".", "1", ":", "l", "a", "t", "e", "s", "t">>,
        Caps("openai", 32, TRUE, TRUE, "undefined", "standard", "good")>>,
      <<<<"l", "l", "a", "m", "a", "3", ".", "2", ":", "l", "a", "t", "e", "s", "t">>,
        Caps("openai", 16, FALSE, TRUE, "undefined", "standard", "good")>>,
      <<<<"f", "i", "r", "e", "f", "u", "n", "c", "t", "i", "o", "n", "-", "v", "2">>,
        Caps("openai", 64, TRUE, FALSE, "undefined", "standard", "good")>>,
      <<<<"c", "o", "m", "m", "a", "n", "d", "-", "r", "-", "p", "l", "u", "s">>,
        Caps("openai", 32, TRUE, FALSE, "undefined", "standard", "good")>>>>

DEFAULT_MODEL_CAPABILITIES ==
    [kind |-> "caps", supportsTools |-> FALSE, toolFormat |-> "openai",
     maxTools |-> 0, supportsParallel |-> FALSE, supportsStreaming |-> FALSE,
     customParser |-> "undefined", promptStyle |-> "standard",
     multiTurnSupport |-> "poor"]

P_constructor ==
    <<"c", "o", "n", "s", "t", "r", "u", "c", "t", "o", "r">>

P_toString ==
    <<"t", "o", "S", "t", "r", "i", "n", "g">>

P_valueOf ==
    <<"v", "a", "l", "u", "e", "O", "f">>

P_proto ==
    <<"_", "_", "p", "r", "o", "t", "o", "_", "_">>

\* MODEL_CAPABILITIES is an object literal, so a property read also finds
\* the properties it inherits from Object.prototype.
ObjectPrototypeKeys ==
    {P_constructor, P_toString, P_valueOf, P_proto}

JsUndefined ==
    [kind |-> "undefined"]

\* What an inherited property holds: a function or the prototype object,
\* a truthy value with none of the capability fields.
InheritedValue(key) ==
    [kind |-> "inherited", key |-> key]

OwnKeys ==
    {MODEL_CAPABILITIES[i][1] : i \in 1..Len(MODEL_CAPABILITIES)}

\* MODEL_CAPABILITIES[key]
TableGet(key) ==
    IF key \in OwnKeys
    THEN MODEL_CAPABILITIES[CHOOSE i \in 1..Len(MODEL_CAPABILITIES) :
                                MODEL_CAPABILITIES[i][1] = key][2]
    ELSE IF key \in ObjectPrototypeKeys
         THEN InheritedValue(key)
         ELSE JsUndefined

\* the condition of the family loop for one table key
FamilyMatch(modelName, normalizedName, knownModel) ==
    Includes(modelName, knownModel) \/ Includes(knownModel, normalizedName)

FamilyLookup(modelName, normalizedName) ==
    IF \E i \in 1..Len(MODEL_CAPABILITIES) :
           FamilyMatch(modelName, normalizedName, MODEL_CAPABILITIES[i][1])
    THEN MODEL_CAPABILITIES[
             CHOOSE i \in 1..Len(MODEL_CAPABILITIES) :
                 /\ FamilyMatch(modelName, normalizedName, MODEL_CAPABILITIES[i][1])
                 /\ \A j \in 1..(i - 1) :
                        ~FamilyMatch(modelName, normalizedName, MODEL_CAPABILITIES[j][1])][2]
    ELSE DEFAULT_MODEL_CAPABILITIES

getModelCapabilities(modelName) ==
    LET normalizedName == normalizeModelName(modelName)
    IN  IF TableGet(modelName).kind # "undefined"
        THEN TableGet(modelName)
        ELSE IF TableGet(normalizedName).kind # "undefined"
             THEN TableGet(normalizedName)
             ELSE FamilyLookup(modelName, normalizedName)

\* Reads of a field of the value getModelCapabilities returned; a field the
\* value does not have reads as undefined (falsy).
SupportsTools(capabilities) ==
    capabilities.kind = "caps" /\ capabilities.supportsTools

CustomParser(capabilities) ==
    IF capabilities.kind = "caps" THEN capabilities.customParser ELSE "undefined"

MultiTurnSupport(capabilities) ==
    IF capabilities.kind = "caps" THEN capabilities.multiTurnSupport ELSE "undefined"

modelSupportsTools(modelName) ==
    SupportsTools(getModelCapabilities(modelName))

(***************************************************************************)
(* Gemini tools and the tool translator                                    *)
(***************************************************************************)
\* a Tool whose functionDeclarations holds the given declarations
ToolWith(decls) ==
    [hasDecls |-> TRUE, functionDeclarations |-> decls]

\* a Tool with no functionDeclarations property
ToolWithout ==
    [hasDecls |-> FALSE, functionDeclarations |-> <<>>]

FunctionDecl(name) ==
    [name |-> name]

NullTool ==
    [type |-> "null"]

\* convertToOpenAIFormat / convertToHermesFormat / convertToCustomFormat:
\* the name of the declaration is copied
ConvertFormat(functionDecl, capabilities) ==
    [type |-> "function", name |-> functionDecl.name,
     format |-> IF capabilities.toolFormat = "custom"
                THEN (IF capabilities.customParser = "qwen3coder"
                      THEN "qwen3coder" ELSE "openai")
                ELSE capabilities.toolFormat]

convertSingleTool(tool, capabilities) ==
    IF ~tool.hasDecls
    THEN NullTool
    ELSE IF Len(tool.functionDeclarations) = 0
         THEN NullTool
         ELSE IF capabilities.toolFormat \in {"openai", "hermes", "custom"}
              THEN ConvertFormat(tool.functionDeclarations[1], capabilities)
              ELSE NullTool

\* Array.prototype.slice(0, end) for end >= 0
Slice0(arr, end) ==
    SubSeq(arr, 1, IF end < Len(arr) THEN end ELSE Len(arr))

NotNullTool(tool) ==
    tool # NullTool

\* the mutant of translateGeminiToolsToOllama: the tools are not limited
translateGeminiToolsToOllama_NoSlice(tools, modelName) ==
    LET capabilities == getModelCapabilities(modelName)
    IN  IF ~SupportsTools(capabilities) \/ Len(tools) = 0
        THEN <<>>
        ELSE SelectSeq([i \in 1..Len(tools) |-> convertSingleTool(tools[i], capabilities)],
                    NotNullTool)

translateGeminiToolsToOllama(tools, modelName) ==
    LET capabilities == getModelCapabilities(modelName)
    IN  IF ~SupportsTools(capabilities) \/ Len(tools) = 0
        THEN <<>>
        ELSE LET limitedTools == Slice0(tools, capabilities.maxTools)
             IN  SelectSeq([i \in 1..Len(limitedTools) |->
                             convertSingleTool(limitedTools[i], capabilities)],
                        NotNullTool)

HasValidDecls(tool) ==
    tool.hasDecls /\ Len(tool.functionDeclarations) > 0

LacksValidDecls(tool) ==
    ~HasValidDecls(tool)

validateToolsForModel(tools, modelName) ==
    LET capabilities == getModelCapabilities(modelName)
    IN  IF ~SupportsTools(capabilities)
        THEN [valid |-> <<>>, invalid |-> tools, warnings |-> <<"unsupported">>]
        ELSE [valid |-> SelectSeq(tools, HasValidDecls),
              invalid |-> SelectSeq(tools, LacksValidDecls),
              warnings |->
                  (IF Len(tools) > capabilities.maxTools
                   THEN <<"truncating">> ELSE <<>>)
                  \o [i \in 1..Len(SelectSeq(tools, LacksValidDecls)) |-> "missing-declarations"]]

translateToolsToModel(tools, modelName) ==
    LET capabilities == getModelCapabilities(modelName)
    IN  IF ~modelSupportsTools(modelName)
        THEN [tools |-> <<>>, warnings |-> <<"unsupported">>,
              modelSupportsTools |-> FALSE, capabilities |-> capabilities]
        ELSE LET validation == validateToolsForModel(tools, modelName)
             IN  [tools |-> translateGeminiToolsToOllama(validation.valid, modelName),
                  warnings |-> validation.warnings,
                  modelSupportsTools |-> TRUE, capabilities |-> capabilities]

(***************************************************************************)
(* Inputs of the registry and of the tool translator                       *)
(***************************************************************************)
B_mistral ==
    <<"m", "i", "s", "t", "r", "a", "l">>

B_qwen_coder ==
    <<"q", "w", "e", "n", "2", ".", "5", "-", "c", "o", "d", "e", "r">>

B_foo_bar ==
    <<"f", "o", "o", "-", "b", "a", "r">>

B_Mistral_Nemo ==
    <<"M", "i", "s", "t", "r", "a", "l", "-", "N", "e", "m", "o">>

B_DeepSeek ==
    <<"D", "e", "e", "p", "S", "e", "e", "k">>

B_llama32 ==
    <<"l", "l", "a", "m", "a", "3", ".", "2">>

B_gpt ==
    <<"g", "p", "t">>

B_a ==
    <<"a">>

B_Constructor ==
    <<"C", "o", "n", "s", "t", "r", "u", "c", "t", "o", "r">>

B_my_codestral ==
    <<"m", "y", "-", "c", "o", "d", "e", "s", "t", "r", "a", "l">>

X_7b ==
    <<":", "7", "b">>

X_9b ==
    <<":", "9", "b">>

X_instruct ==
    <<"-", "i", "n", "s", "t", "r", "u", "c", "t">>

X_latest ==
    <<":", "l", "a", "t", "e", "s", "t">>

X_chat ==
    <<"-", "c", "h", "a", "t">>

X_at_q4 ==
    <<"@", "q", "4">>

IdBases ==
    OwnKeys \cup ObjectPrototypeKeys \cup
    {<<>>, B_mistral, B_qwen_coder, B_foo_bar, B_Mistral_Nemo, B_DeepSeek, B_llama32, B_gpt, B_a, B_Constructor, B_my_codestral}

IdSuffixes ==
    {<<>>, X_7b, X_9b, X_instruct, X_latest, X_chat, X_at_q4}

\* the model ids the registry is asked about
ModelIds ==
    {b \o s : b \in IdBases, s \in IdSuffixes}

MaxToolCount == 17

DigitChar(d) ==
    Digits[d + 1]

\* the name of the i-th offered function
NameOfIndex(i) ==
    <<"t", DigitChar(i \div 10), DigitChar(i % 10)>>

BadPositions ==
    {1, 3}

\* n offered tools; those at the positions in bad declare no function
\* (no functionDeclarations at position 1, an empty list elsewhere)
ToolListOf(n, bad) ==
    [i \in 1..n |->
        IF i \in bad
        THEN (IF i = 1 THEN ToolWithout ELSE ToolWith(<<>>))
        ELSE ToolWith(<<FunctionDecl(NameOfIndex(i))>>)]

ToolLists ==
    {ToolListOf(n, bad) : n \in 0..MaxToolCount, bad \in SUBSET BadPositions}

(***************************************************************************)
(* SpecTools: the registry lookup and the tool translation applied to      *)
(* every model id and tool list of the bounded input sets                  *)
(***************************************************************************)
TrInit ==
    /\ trModel \in ModelIds
    /\ trTools \in ToolLists
    /\ trPc = "input"
    /\ trCaps = JsUndefined
    /\ trOut = <<>>
    /\ trWarnings = <<>>

GetModelCapabilities ==
    /\ trPc = "input"
    /\ trCaps' = getModelCapabilities(trModel)
    /\ trPc' = "looked"
    /\ UNCHANGED <<trModel, trTools, trOut, trWarnings>>

TranslateGeminiToolsToOllama ==
    /\ trPc = "input"
    /\ trOut' = translateGeminiToolsToOllama(trTools, trModel)
    /\ trPc' = "translated"
    /\ UNCHANGED <<trModel, trTools, trCaps, trWarnings>>

TranslateToolsToModel ==
    /\ trPc = "input"
    /\ LET result == translateToolsToModel(trTools, trModel)
       IN  /\ trOut' = result.tools
           /\ trWarnings' = result.warnings
           /\ trCaps' = result.capabilities
    /\ trPc' = "translatedToModel"
    /\ UNCHANGED <<trModel, trTools>>

TrNext ==
    \/ GetModelCapabilities
    \/ TranslateGeminiToolsToOllama
    \/ TranslateToolsToModel

InitTools ==
    TrInit /\ RvIdle /\ RqIdle /\ StIdle /\ OgIdle /\ DsIdle /\ OpIdle /\ CtIdle /\ SnIdle /\ DgIdle

NextTools ==
    TrNext /\ UNCHANGED <<rvVars, rqVars, stVars, ogVars, dsVars, opVars, ctVars, snVars, dgVars>>

SpecTools ==
    InitTools /\ [][NextTools]_vars

(***************************************************************************)
(* C3: for every model id and every offered tool list, the tool            *)
(* translation (translateGeminiToolsToOllama and translateToolsToModel)    *)
(* returns at most maxTools tools, maxTools being that of the              *)
(* capabilities looked up for the model id; a looked-up value that has no  *)
(* maxTools gets no tool at all.                                           *)
(***************************************************************************)
C3_OutputWithinMaxTools ==
    trPc \in {"translated", "translatedToModel"} =>
        LET capabilities == getModelCapabilities(trModel)
        IN  IF capabilities.kind = "caps"
            THEN Len(trOut) <= capabilities.maxTools
            ELSE Len(trOut) = 0

\* more tools offered than the model takes, and the output is cut to maxTools
C3_Witness ==
    /\ trPc = "translated"
    /\ getModelCapabilities(trModel).kind = "caps"
    /\ getModelCapabilities(trModel).maxTools > 0
    /\ Len(trTools) > getModelCapabilities(trModel).maxTools
    /\ Len(trOut) = getModelCapabilities(trModel).maxTools

(***************************************************************************)
(* C4: getModelCapabilities is total and returns a capabilities value for  *)
(* every model id; an id that matches no registered model (not a table     *)
(* key, not even after normalisation, and no family match in either        *)
(* direction) gets the default capabilities with supportsTools = FALSE;    *)
(* "mistral:latest" gets toolFormat openai, maxTools 128, supportsParallel *)
(* TRUE.                                                                   *)
(***************************************************************************)
\* the id names a registered model, in the widest sense of the lookup
RegisteredModel(modelName) ==
    LET normalizedName == normalizeModelName(modelName)
    IN  \/ modelName \in OwnKeys
        \/ normalizedName \in OwnKeys
        \/ \E k \in OwnKeys :
               \/ Includes(modelName, k)
               \/ Includes(normalizedName, k)
               \/ Includes(k, normalizedName)
               \/ Includes(k, modelName)

C4_TotalWithDefault ==
    trPc = "looked" =>
        /\ trCaps.kind = "caps"
        /\ ~RegisteredModel(trModel) => trCaps = DEFAULT_MODEL_CAPABILITIES
        /\ trModel = K_mistral_latest =>
               /\ trCaps.toolFormat = "openai"
               /\ trCaps.maxTools = 128
               /\ trCaps.supportsParallel

(***************************************************************************)
(* JSON values received from the backend                                   *)
(***************************************************************************)
JUndefined ==
    [t |-> "undefined", v |-> "", kv |-> <<>>]

JNull ==
    [t |-> "null", v |-> "", kv |-> <<>>]

\* a JSON string, with its text
JStr(text) ==
    [t |-> "string", v |-> text, kv |-> <<>>]

JNum(text) ==
    [t |-> "number", v |-> text, kv |-> <<>>]

\* a JSON object: its properties, <<key, value>>, in order
JObj(kv) ==
    [t |-> "object", v |-> "", kv |-> kv]

TypeOf(x) ==
    IF x.t \in {"object", "null"} THEN "object" ELSE x.t

Truthy(x) ==
    /\ x.t \notin {"undefined", "null"}
    /\ ~(x.t = "string" /\ x.v = "")
    /\ ~(x.t = "number" /\ x.v = "0")

\* x[key] of an object
Prop(x, key) ==
    IF x.t = "object" /\ \E i \in 1..Len(x.kv) : x.kv[i][1] = key
    THEN x.kv[CHOOSE i \in 1..Len(x.kv) : x.kv[i][1] = key][2]
    ELSE JUndefined

ArgsQuery ==
    JObj(<<<<"q", JStr("x")>>>>)

\* JSON.parse of the argument texts the backend sends; any other text is
\* not JSON and makes JSON.parse throw
JSONParse(text) ==
    CASE text = "{}" -> [threw |-> FALSE, value |-> JObj(<<>>)]
      [] text = "{\"q\":\"x\"}" -> [threw |-> FALSE, value |-> ArgsQuery]
      [] text = "{\"parameters\":{\"q\":\"x\"}}" ->
             [threw |-> FALSE, value |-> JObj(<<<<"parameters", ArgsQuery>>>>)]
      [] text = "null" -> [threw |-> FALSE, value |-> JNull]
      [] text = "42" -> [threw |-> FALSE, value |-> JNum("42")]
      [] OTHER -> [threw |-> TRUE, value |-> JUndefined]

(***************************************************************************)
(* OllamaResponseTranslator                                                *)
(***************************************************************************)
\* toolCall.function.name: a string, or not a string at all
NameStr(chars) ==
    [t |-> "string", s |-> chars]

NameUndefined ==
    [t |-> "undefined", s |-> <<>>]

\* an OllamaToolCall; hasFunction is FALSE when the call has no function
ToolCall(name, arguments) ==
    [hasFunction |-> TRUE, name |-> name, arguments |-> arguments]

ToolCallNoFunction ==
    [hasFunction |-> FALSE, name |-> NameUndefined, arguments |-> JUndefined]

\* an OllamaChatResponse; tool_calls is optional
ChatResponse(content, hasToolCalls, toolCalls, done) ==
    [kind |-> "ollama",
     message |-> [content |-> content, hasToolCalls |-> hasToolCalls,
                  tool_calls |-> toolCalls],
     done |-> done]

findRegisteredTool(toolName, registeredTools) ==
    \E i \in 1..Len(registeredTools) :
        /\ registeredTools[i].hasDecls
        /\ \E j \in 1..Len(registeredTools[i].functionDeclarations) :
               /\ toolName.t = "string"
               /\ registeredTools[i].functionDeclarations[j].name = toolName.s

validateToolCallArguments(toolCall) ==
    IF TypeOf(toolCall.arguments) = "string"
    THEN ~JSONParse(toolCall.arguments.v).threw
    ELSE IF TypeOf(toolCall.arguments) = "object"
         THEN toolCall.arguments.t # "null"
         ELSE FALSE

\* the rule that rejects the call, or "none"
ModelSpecificRejection(toolCall, capabilities) ==
    IF /\ CustomParser(capabilities) = "qwen3coder"
       /\ \/ Includes(toolCall.name.s, <<"<">>)
          \/ Includes(toolCall.name.s, <<">">>)
    THEN "qwen-formatting"
    ELSE IF /\ MultiTurnSupport(capabilities) = "poor"
            /\ \/ Includes(toLowerCase(toolCall.name.s), <<"f", "o", "l", "l", "o", "w">>)
               \/ Includes(toLowerCase(toolCall.name.s), <<"n", "e", "x", "t">>)
         THEN "deepseek-follow-up"
         ELSE "none"

validateForModelSpecificRequirements(toolCall, capabilities) ==
    ModelSpecificRejection(toolCall, capabilities) = "none"

\* the mutant of CallVerdict: the name is not checked against the
\* registered tools
CallVerdict_NoExistenceCheck(toolCall, capabilities, registeredTools) ==
    IF ~validateToolCallArguments(toolCall)
    THEN "invalid-json"
    ELSE IF toolCall.name.t # "string"
         THEN "valid"
         ELSE IF ~validateForModelSpecificRequirements(toolCall, capabilities)
              THEN ModelSpecificRejection(toolCall, capabilities)
              ELSE "valid"

\* the mutant of CallVerdict: no model-specific rule lets a call through
\* unless the model has a custom parser
CallVerdict_Strict(toolCall, capabilities, registeredTools) ==
    IF ~findRegisteredTool(toolCall.name, registeredTools)
    THEN "unknown-tool"
    ELSE IF ~validateToolCallArguments(toolCall)
         THEN "invalid-json"
         ELSE IF CustomParser(capabilities) = "undefined"
              THEN "deepseek-follow-up"
              ELSE "valid"

\* isValidToolCall for a call that has a function: "valid", or why the call
\* is dropped (the three checks in order, the first failure decides)
CallVerdict(toolCall, capabilities, registeredTools) ==
    IF ~findRegisteredTool(toolCall.name, registeredTools)
    THEN "unknown-tool"
    ELSE IF ~validateToolCallArguments(toolCall)
         THEN "invalid-json"
         ELSE IF ~validateForModelSpecificRequirements(toolCall, capabilities)
              THEN ModelSpecificRejection(toolCall, capabilities)
              ELSE "valid"

processQwenCoderArguments(args) ==
    IF ~Truthy(args) \/ TypeOf(args) # "object"
    THEN args
    ELSE IF Truthy(Prop(args, "parameters")) /\ TypeOf(Prop(args, "parameters")) = "object"
         THEN Prop(args, "parameters")
         ELSE IF Truthy(Prop(args, "arguments")) /\ TypeOf(Prop(args, "arguments")) = "object"
              THEN Prop(args, "arguments")
              ELSE args

\* the arguments of a call as convertToolCallToFunctionCall parses them
ParsedArguments(toolCall) ==
    IF TypeOf(toolCall.arguments) = "string"
    THEN JSONParse(toolCall.arguments.v).value
    ELSE toolCall.arguments

\* called on validated calls only, so JSON.parse does not throw here
convertToolCallToFunctionCall(toolCall, capabilities) ==
    [name |-> toolCall.name,
     args |-> IF CustomParser(capabilities) = "qwen3coder"
              THEN processQwenCoderArguments(ParsedArguments(toolCall))
              ELSE ParsedArguments(toolCall)]

WhitespaceChars ==
    {" ", "\n", "\t"}

\* content && content.trim()
HasText(content) ==
    \E i \in 1..Len(content) : content[i] \notin WhitespaceChars

TextPart(text) ==
    [text |-> text]

FunctionCallPart(functionCall) ==
    [functionCall |-> functionCall]

IsFunctionCallPart(part) ==
    "functionCall" \in DOMAIN part

\* the mutant of convertToGeminiFormat: the tool calls are left out of
\* the parts
convertToGeminiFormat_TextOnly(response, capabilities) ==
    [kind |-> "gemini",
     parts |-> <<TextPart(response.message.content)>>,
     finishReason |-> IF response.done THEN "STOP" ELSE "undefined"]

convertToGeminiFormat(response, capabilities) ==
    LET textParts == IF HasText(response.message.content)
                     THEN <<TextPart(response.message.content)>>
                     ELSE <<>>
        calls == IF response.message.hasToolCalls
                 THEN response.message.tool_calls ELSE <<>>
        callParts == [i \in 1..Len(calls) |->
                         FunctionCallPart(
                             convertToolCallToFunctionCall(calls[i], capabilities))]
        parts == textParts \o callParts
    IN  [kind |-> "gemini",
         parts |-> IF Len(parts) = 0 THEN <<TextPart(<<>>)>> ELSE parts,
         finishReason |-> IF response.done THEN "STOP" ELSE "undefined"]

\* the warning pushed for a dropped call
WarningOf(verdict) ==
    CASE verdict = "unknown-tool" -> "Unknown tool called"
      [] verdict = "invalid-json" -> "Invalid JSON in tool call arguments"
      [] verdict = "qwen-formatting" -> "Qwen model used invalid formatting in tool name"
      [] verdict = "deepseek-follow-up" -> "DeepSeek model may be hallucinating follow-up call"

\* the mutant of IsDropped: a call dropped by a model-specific rule gets
\* no warning
IsDropped_CountedOnly(verdict) ==
    verdict \in {"unknown-tool", "invalid-json"}

IsDropped(verdict) ==
    verdict # "valid"

validateAndTranslateResponse(response, modelName, registeredTools) ==
    LET capabilities == getModelCapabilities(modelName)
        calls == response.message.tool_calls
        verdicts == [i \in 1..Len(calls) |->
                        CallVerdict(calls[i], capabilities, registeredTools)]
        IsValidCall(call) ==
            CallVerdict(call, capabilities, registeredTools) = "valid"
        validCalls == SelectSeq(calls, IsValidCall)
        dropped == SelectSeq(verdicts, IsDropped)
        hallucinated == Len(calls) - Len(validCalls)
    IN  IF response.kind # "ollama"
        THEN [threw |-> TRUE, error |-> "TypeError"]
        ELSE IF ~response.message.hasToolCalls
        THEN [threw |-> FALSE,
              response |-> convertToGeminiFormat(response, capabilities),
              stats |-> [totalToolCalls |-> 0, validToolCalls |-> 0,
                         hallucinatedToolCalls |-> 0, invalidJsonCalls |-> 0,
                         unknownToolCalls |-> 0, warnings |-> <<>>]]
        ELSE IF \E i \in 1..Len(calls) : ~calls[i].hasFunction
        THEN [threw |-> TRUE, error |-> "TypeError"]
        ELSE [threw |-> FALSE,
              response |->
                  convertToGeminiFormat(
                      [response EXCEPT !.message.tool_calls = validCalls],
                      capabilities),
              stats |->
                  [totalToolCalls |-> Len(calls),
                   validToolCalls |-> Len(validCalls),
                   hallucinatedToolCalls |-> hallucinated,
                   invalidJsonCalls |->
                       Cardinality({i \in 1..Len(calls) : verdicts[i] = "invalid-json"}),
                   unknownToolCalls |->
                       Cardinality({i \in 1..Len(calls) : verdicts[i] = "unknown-tool"}),
                   warnings |->
                       [i \in 1..Len(dropped) |-> WarningOf(dropped[i])]
                       \o (IF hallucinated > 0
                           THEN <<"Filtered hallucinated tool calls">>
                           ELSE <<>>)]]

\* the model issues detectResponseIssues reports
detectResponseIssues(response, modelName) ==
    LET capabilities == getModelCapabilities(modelName)
        content == toLowerCase(response.message.content)
    IN  IF response.kind # "ollama"
        THEN [threw |-> TRUE, issues |-> <<>>]
        ELSE [threw |-> FALSE,
              issues |->
                  (IF \/ Includes(content, <<"i", " ", "n", "e", "e", "d", " ", "t", "o", " ", "c", "a", "l", "l">>)
                      \/ Includes(content, <<"i", " ", "s", "h", "o", "u", "l", "d", " ", "u", "s", "e">>)
                   THEN <<"describing tool usage">> ELSE <<>>)
                  \o (IF \/ Includes(content, <<"f", "u", "n", "c", "t", "i", "o", "n", "_">>)
                         \/ Includes(content, <<"t", "o", "o", "l", "_">>)
                      THEN <<"referencing non-existent tools">> ELSE <<>>)
                  \o (IF /\ MultiTurnSupport(capabilities) = "poor"
                         /\ response.message.hasToolCalls
                         /\ Len(response.message.tool_calls) > 3
                      THEN <<"too many tool calls">> ELSE <<>>)]

translateResponseFromModel(response, modelName, registeredTools) ==
    LET modelIssues == detectResponseIssues(response, modelName)
        translated == validateAndTranslateResponse(response, modelName, registeredTools)
    IN  IF modelIssues.threw \/ translated.threw
        THEN [threw |-> TRUE, error |-> "TypeError"]
        ELSE [threw |-> FALSE, response |-> translated.response,
              stats |-> translated.stats, modelIssues |-> modelIssues.issues]

\* OllamaClient.generateContent(request, tools), the two-argument client
\* that OllamaContentGenerator calls: the transport hands back the backend's
\* single JSON response
ClientGenerateContent(backendResponse) ==
    backendResponse

\* the try block of OllamaContentGenerator.generateContent, entered with
\* the backend's response: the response it returns, or the error it throws
generateContent(backendResponse, modelName, registeredTools) ==
    LET ollamaResponse == ClientGenerateContent(backendResponse)
        responseTranslation ==
            translateResponseFromModel(ollamaResponse, modelName, registeredTools)
    IN  IF responseTranslation.threw
        THEN [threw |-> TRUE, error |-> "Ollama generateContent failed"]
        ELSE [threw |-> FALSE, response |-> responseTranslation.response,
              stats |-> responseTranslation.stats]

\* the body of the for await loop of translateStreamingResponses for one
\* item of the client's stream: the response it yields
StreamItemYield(ollamaResponse, modelName, registeredTools) ==
    LET responseTranslation ==
            translateResponseFromModel(ollamaResponse, modelName, registeredTools)
    IN  IF responseTranslation.threw
        THEN ollamaResponse
        ELSE responseTranslation.response

(***************************************************************************)
(* Inputs of the response validation                                       *)
(***************************************************************************)
N_search ==
    <<"s", "e", "a", "r", "c", "h">>

N_getNext ==
    <<"g", "e", "t", "N", "e", "x", "t">>

N_angle ==
    <<"<", "s", "e", "a", "r", "c", "h", ">">>

N_unregistered ==
    <<"u", "n", "r", "e", "g", "i", "s", "t", "e", "r", "e", "d", "_", "f", "n">>

CallNames ==
    {N_search, N_getNext, N_angle, N_unregistered}

RegisteredToolSets ==
    {<<>>,
     <<ToolWith(<<FunctionDecl(N_search), FunctionDecl(N_getNext)>>)>>,
     <<ToolWithout, ToolWith(<<FunctionDecl(N_angle)>>), ToolWith(<<FunctionDecl(N_search)>>)>>}

ArgumentValues ==
    {JStr("{}"), JStr("{\"q\":\"x\"}"), JStr("{\"parameters\":{\"q\":\"x\"}}"),
     JStr("not-json"), JStr("null"), JStr("42"),
     ArgsQuery, JObj(<<<<"arguments", ArgsQuery>>>>),
     JObj(<<<<"parameters", JStr("p")>>>>), JNull, JUndefined}

\* the calls a response may start with
FirstCalls ==
    {ToolCall(NameStr(n), a) : n \in CallNames, a \in ArgumentValues}
    \cup {ToolCall(NameUndefined, ArgsQuery), ToolCallNoFunction}

\* the calls that may follow
MoreCalls ==
    {ToolCall(NameStr(N_search), ArgsQuery),
     ToolCall(NameStr(N_unregistered), JStr("{}")),
     ToolCall(NameStr(N_search), JStr("not-json")),
     ToolCallNoFunction}

MaxCalls == 2

RECURSIVE SeqsUpTo(_, _)
SeqsUpTo(S, n) ==
    IF n = 0
    THEN {<<>>}
    ELSE LET shorter == SeqsUpTo(S, n - 1)
         IN  shorter \cup {Append(s, x) : s \in {q \in shorter : Len(q) = n - 1}, x \in S}

ToolCallLists ==
    {<<>>} \cup {<<c>> \o rest : c \in FirstCalls, rest \in SeqsUpTo(MoreCalls, MaxCalls - 1)}

Contents ==
    {<<>>, <<" ">>, <<"u", "s", "e", " ", "t", "o", "o", "l", "_", "x">>}

RvModels ==
    {K_mistral_latest,
     <<"q", "w", "e", "n", "2", ".", "5", "-", "c", "o", "d", "e", "r", ":", "7", "b">>,
     <<"d", "e", "e", "p", "s", "e", "e", "k", "-", "c", "h", "a", "t">>,
     B_foo_bar \o X_9b,
     P_constructor}

BackendResponses ==
    {ChatResponse(c, TRUE, calls, d) :
         c \in Contents, calls \in ToolCallLists, d \in BOOLEAN}
    \cup {ChatResponse(c, FALSE, <<>>, d) : c \in Contents, d \in BOOLEAN}

(***************************************************************************)
(* SpecValidate: the response validation applied to every backend response *)
(* of the bounded input sets                                               *)
(***************************************************************************)
RvInit ==
    /\ rvModel \in RvModels
    /\ rvRegistered \in RegisteredToolSets
    /\ rvResponse \in BackendResponses
    /\ rvPc = "input"
    /\ rvResult = [threw |-> FALSE]

ValidateAndTranslateResponse ==
    /\ rvPc = "input"
    /\ rvResult' = validateAndTranslateResponse(rvResponse, rvModel, rvRegistered)
    /\ rvPc' = "validated"
    /\ UNCHANGED <<rvModel, rvRegistered, rvResponse>>

GenerateContent ==
    /\ rvPc = "input"
    /\ rvResult' = generateContent(rvResponse, rvModel, rvRegistered)
    /\ rvPc' = "generated"
    /\ UNCHANGED <<rvModel, rvRegistered, rvResponse>>

\* translateStreamingResponses takes one item of the client's stream
TranslateStreamingResponse ==
    /\ rvPc = "input"
    /\ rvResult' = [threw |-> FALSE,
                    response |-> StreamItemYield(rvResponse, rvModel, rvRegistered)]
    /\ rvPc' = "streamed"
    /\ UNCHANGED <<rvModel, rvRegistered, rvResponse>>

RvNext ==
    \/ ValidateAndTranslateResponse
    \/ GenerateContent

InitValidate ==
    RvInit /\ TrIdle /\ RqIdle /\ StIdle /\ OgIdle /\ DsIdle /\ OpIdle /\ CtIdle /\ SnIdle /\ DgIdle

NextValidate ==
    RvNext /\ UNCHANGED <<trVars, rqVars, stVars, ogVars, dsVars, opVars, ctVars, snVars, dgVars>>

SpecValidate ==
    InitValidate /\ [][NextValidate]_vars

\* the names of the function declarations of the registered tools
DeclaredNames(registeredTools) ==
    UNION {{registeredTools[i].functionDeclarations[j].name :
                j \in 1..Len(registeredTools[i].functionDeclarations)} :
           i \in {k \in 1..Len(registeredTools) : registeredTools[k].hasDecls}}

\* the function calls of a translated response, in order
FunctionCallsOf(response) ==
    LET IsCall(part) == IsFunctionCallPart(part)
        callParts == SelectSeq(response.parts, IsCall)
    IN  [i \in 1..Len(callParts) |-> callParts[i].functionCall]

\* the raw tool calls of the validated backend response
RawCalls ==
    IF rvResponse.message.hasToolCalls THEN rvResponse.message.tool_calls ELSE <<>>

Returned ==
    rvPc \in {"validated", "generated"} /\ ~rvResult.threw

(***************************************************************************)
(* C1: every function call of the response that the validation returns    *)
(* has the name of a function declaration of the registered tools handed   *)
(* to that call; with no registered tools the response has no function     *)
(* call and unknownToolCalls counts every raw call.                        *)
(***************************************************************************)
C1_OnlyRegisteredNames ==
    Returned =>
        /\ \A i \in 1..Len(FunctionCallsOf(rvResult.response)) :
               /\ FunctionCallsOf(rvResult.response)[i].name.t = "string"
               /\ FunctionCallsOf(rvResult.response)[i].name.s
                      \in DeclaredNames(rvRegistered)
        /\ rvRegistered = <<>> =>
               /\ Len(FunctionCallsOf(rvResult.response)) = 0
               /\ rvResult.stats.unknownToolCalls = Len(RawCalls)

\* a response with a kept call and a dropped call of an unregistered name
C1_Witness ==
    /\ rvPc = "validated"
    /\ ~rvResult.threw
    /\ Len(FunctionCallsOf(rvResult.response)) = 1
    /\ rvResult.stats.unknownToolCalls = 1
    /\ Len(RawCalls) = 2

(***************************************************************************)
(* C2 as claimed: for every model id, a raw call whose name is a           *)
(* registered function name and whose arguments are a non-null object, or  *)
(* a string that parses to one, is kept with the identical name and with   *)
(* args equal to the parsed arguments, whatever the spelling of the name   *)
(* and whatever keys the arguments have.                                   *)
(***************************************************************************)
\* the arguments are a non-null object, or a string that parses to one
StructuredArguments(toolCall) ==
    \/ toolCall.arguments.t = "object"
    \/ /\ toolCall.arguments.t = "string"
       /\ ~JSONParse(toolCall.arguments.v).threw
       /\ JSONParse(toolCall.arguments.v).value.t = "object"

\* a raw call with a registered name and structured arguments
WellFormedRegisteredCall(toolCall) ==
    /\ toolCall.hasFunction
    /\ toolCall.name.t = "string"
    /\ toolCall.name.s \in DeclaredNames(rvRegistered)
    /\ StructuredArguments(toolCall)

\* the response holds a function call with this name and these args
Kept(name, args) ==
    \E i \in 1..Len(FunctionCallsOf(rvResult.response)) :
        FunctionCallsOf(rvResult.response)[i] = [name |-> name, args |-> args]

NameRejectedForModel(name, capabilities) ==
    \/ /\ CustomParser(capabilities) = "qwen3coder"
       /\ \E i \in 1..Len(name) : name[i] \in {"<", ">"}
    \/ /\ MultiTurnSupport(capabilities) = "poor"
       /\ \/ Includes(toLowerCase(name), <<"f", "o", "l", "l", "o", "w">>)
          \/ Includes(toLowerCase(name), <<"n", "e", "x", "t">>)

IsWrapper(args, key) ==
    /\ \E i \in 1..Len(args.kv) : args.kv[i][1] = key
    /\ Prop(args, key).t = "object"

ExpectedArgs(parsed, capabilities) ==
    IF CustomParser(capabilities) # "qwen3coder"
    THEN parsed
    ELSE IF IsWrapper(parsed, "parameters")
         THEN Prop(parsed, "parameters")
         ELSE IF IsWrapper(parsed, "arguments")
              THEN Prop(parsed, "arguments")
              ELSE parsed

BadCall(toolCall) ==
    \/ ~toolCall.hasFunction
    \/ toolCall.name.t # "string"
    \/ toolCall.name.s \notin DeclaredNames(rvRegistered)
    \/ ~validateToolCallArguments(toolCall)

C10_BadCallsNeverThrow ==
    rvPc \in {"validated", "generated"} =>
        /\ ~rvResult.threw
        /\ LET bad == {i \in 1..Len(RawCalls) : BadCall(RawCalls[i])}
           IN  /\ rvResult.stats.hallucinatedToolCalls >= Cardinality(bad)
               /\ Len(rvResult.stats.warnings) >= Cardinality(bad)
               /\ Len(FunctionCallsOf(rvResult.response))
                      <= Len(RawCalls) - Cardinality(bad)

(***************************************************************************)
(* HTTP client: the retry loop of makeRequest and makeStreamingRequest     *)
(***************************************************************************)
Min(a, b) ==
    IF a <= b THEN a ELSE b

\* the mutant of BackoffDelay: the delay is not capped
BackoffDelay_Uncapped(attempt) ==
    1000 * 2^attempt

\* delay = Math.min(1000 * Math.pow(2, attempt), 10000)
BackoffDelay(attempt) ==
    Min(1000 * 2^attempt, 10000)

\* the ways await fetch(...) ends: a 2xx response, a non-2xx response
\* (!response.ok), a rejected fetch, the abort of AbortSignal.timeout
FetchOutcomes ==
    {"ok", "http_error", "network_error", "timeout"}

\* the ways await response.json() ends
JsonOutcomes ==
    {"ok", "invalid_json", "network_error", "timeout"}

\* new Error(`... failed after ${this.maxRetries + 1} attempts: ${error}`)
RetriesExhaustedError(maxRetries, error) ==
    [kind |-> "failed after attempts", attempts |-> maxRetries + 1,
     cause |-> error]

\* new Error('Unexpected error in makeRequest')
UnexpectedError ==
    [kind |-> "Unexpected error"]

IsFinalAttempt_OffByOne(attempt, maxRetries) ==
    attempt = maxRetries + 1

\* if (attempt === this.maxRetries)
IsFinalAttempt(attempt, maxRetries) ==
    attempt = maxRetries

\* number of HTTP attempts issued so far
RqIssued ==
    Len(rqLog) + (IF rqPc \in {"fetching", "parsing"} THEN 1 ELSE 0)

\* the loop test with the loop variable at attempt, and the fetch call
RqLoopTest(attempt) ==
    /\ rqAttempt' = attempt
    /\ rqDelay' = 0
    /\ rqLog' = rqLog
    /\ IF attempt <= rqMaxRetries
       THEN /\ rqPc' = "fetching"
            /\ rqError' = rqError
       ELSE /\ rqPc' = "thrown"
            /\ rqError' = UnexpectedError

\* the catch block
RqCatch(error) ==
    /\ rqLog' = Append(rqLog, error)
    /\ rqAttempt' = rqAttempt
    /\ IF IsFinalAttempt(rqAttempt, rqMaxRetries)
       THEN /\ rqPc' = "thrown"
            /\ rqError' = RetriesExhaustedError(rqMaxRetries, error)
            /\ rqDelay' = 0
       ELSE /\ rqPc' = "backoff"
            /\ rqError' = rqError
            /\ rqDelay' = BackoffDelay(rqAttempt)

\* the attempt produced the value the function returns
RqReturn ==
    /\ rqLog' = Append(rqLog, "ok")
    /\ rqPc' = "returned"
    /\ UNCHANGED <<rqAttempt, rqDelay, rqError>>

MaxRetriesBound == 5

RqInit ==
    /\ rqKind \in {"json", "stream"}
    /\ rqMaxRetries \in 0..MaxRetriesBound
    /\ rqAttempt = 0
    /\ rqPc = "start"
    /\ rqLog = <<>>
    /\ rqDelay = 0
    /\ rqError = [kind |-> "undefined"]
    /\ rqCancelled = FALSE

\* the call: attempt = 0, the first loop test, the first fetch
StartRequest ==
    /\ rqPc = "start"
    /\ RqLoopTest(0)
    /\ UNCHANGED <<rqKind, rqMaxRetries, rqCancelled>>

\* await fetch(...) settles
FetchSettles ==
    /\ rqPc = "fetching"
    /\ \E outcome \in FetchOutcomes :
          IF outcome = "ok"
          THEN IF rqKind = "json"
               THEN /\ rqPc' = "parsing"
                    /\ UNCHANGED <<rqAttempt, rqLog, rqDelay, rqError>>
               ELSE RqReturn
          ELSE RqCatch(outcome)
    /\ UNCHANGED <<rqKind, rqMaxRetries, rqCancelled>>

\* await response.json() settles (makeRequest only)
JsonSettles ==
    /\ rqPc = "parsing"
    /\ \E outcome \in JsonOutcomes :
          IF outcome = "ok" THEN RqReturn ELSE RqCatch(outcome)
    /\ UNCHANGED <<rqKind, rqMaxRetries, rqCancelled>>

\* the setTimeout of the backoff wait fires: attempt++, next loop test
TimerFires ==
    /\ rqPc = "backoff"
    /\ RqLoopTest(rqAttempt + 1)
    /\ UNCHANGED <<rqKind, rqMaxRetries, rqCancelled>>

\* the caller raises its cancellation signal while the request is under
\* way; nothing in the loop listens to it: the only signal given to fetch
\* is AbortSignal.timeout(this.timeout), and the timer has no signal
RaiseCancellation ==
    /\ rqPc \in {"fetching", "parsing", "backoff"}
    /\ ~rqCancelled
    /\ rqCancelled' = TRUE
    /\ UNCHANGED <<rqKind, rqMaxRetries, rqAttempt, rqPc, rqLog, rqDelay,
                   rqError>>

RqProgress ==
    (StartRequest \/ FetchSettles \/ JsonSettles \/ TimerFires)
        /\ UNCHANGED <<trVars, rvVars, stVars, ogVars, dsVars, opVars, ctVars, snVars, dgVars>>

RqNext ==
    \/ StartRequest
    \/ FetchSettles
    \/ JsonSettles
    \/ TimerFires
    \/ RaiseCancellation

InitRequest ==
    RqInit /\ TrIdle /\ RvIdle /\ StIdle /\ OgIdle /\ DsIdle /\ OpIdle /\ CtIdle /\ SnIdle /\ DgIdle

NextRequest ==
    RqNext /\ UNCHANGED <<trVars, rvVars, stVars, ogVars, dsVars, opVars, ctVars, snVars, dgVars>>

\* every await of the loop settles: fetch and the body read are bounded by
\* AbortSignal.timeout(this.timeout), the backoff by its setTimeout
SpecRequest ==
    InitRequest /\ [][NextRequest]_vars /\ WF_vars(RqProgress)

RqDone ==
    rqPc \in {"returned", "thrown"}

C7_Bounded ==
    /\ RqIssued <= rqMaxRetries + 1
    /\ rqPc = "returned" =>
          /\ RqIssued = Len(rqLog)
          /\ rqLog[Len(rqLog)] = "ok"
          /\ \A i \in 1..(Len(rqLog) - 1) : rqLog[i] # "ok"
    /\ rqPc = "thrown" =>
          /\ \A i \in 1..Len(rqLog) : rqLog[i] # "ok"
          /\ RqIssued = rqMaxRetries + 1
          /\ rqError.kind = "failed after attempts"
          /\ rqError.attempts = rqMaxRetries + 1
          /\ rqError.cause = rqLog[Len(rqLog)]

\* C7: makeRequest always terminates; it never issues more than
\* maxRetries+1 HTTP attempts; when it returns, the attempt that produced
\* the value is the first successful one and the last one issued; when it
\* throws, every attempt has failed, exactly maxRetries+1 attempts were
\* issued, and the error reports maxRetries+1 attempts and the last failure.
C7_RequestTerminates ==
    [](rqKind = "json" => C7_Bounded) /\ <>(rqKind = "json" => RqDone)

C7_Witness ==
    /\ rqKind = "json"
    /\ rqPc = "thrown"
    /\ rqMaxRetries = 2
    /\ rqLog = <<"network_error", "http_error", "network_error">>

\* C8: once the cancellation signal is raised, no further HTTP attempt is
\* issued and no step of the request leaves it in a backoff wait.
C8_CancellationStopsRequest ==
    [][rqCancelled => (RqIssued' = RqIssued /\ rqPc' # "backoff")]_vars

(***************************************************************************)
(* HTTP client: the frame reader generateContentStream                     *)
(*                                                                         *)
(* The response body is a sequence of tokens: the newline "\n", a blank    *)
(* " ", and pieces of JSON text.  A read hands out any number of tokens,   *)
(* so that a line can arrive in one read or split over reads.              *)
(***************************************************************************)
NL ==
    "\n"

Blank ==
    " "

\* first piece of the JSON text of a frame with the given message content
FrameHead(content) ==
    "{\"message\":{\"role\":\"assistant\",\"content\":\"" \o content \o "\"}"

\* second piece of the JSON text of a frame
FrameTail(done) ==
    IF done THEN ",\"done\":true}" ELSE ",\"done\":false}"

T_number ==
    "42"

StreamContents ==
    {Digits[i] : i \in 1..Len(Digits)}

Front(seq) ==
    SubSeq(seq, 1, Len(seq) - 1)

RECURSIVE Split(_)
\* buffer.split('\n'): the pieces between the newlines, at least one piece
Split(tokens) ==
    IF \A i \in 1..Len(tokens) : tokens[i] # NL
    THEN <<tokens>>
    ELSE LET first == CHOOSE i \in 1..Len(tokens) :
                          /\ tokens[i] = NL
                          /\ \A j \in 1..(i - 1) : tokens[j] # NL
         IN  <<SubSeq(tokens, 1, first - 1)>>
                 \o Split(SubSeq(tokens, first + 1, Len(tokens)))

RECURSIVE Trim(_)
\* line.trim(); JSON.parse skips the same leading and trailing whitespace
Trim(line) ==
    IF line = <<>> THEN <<>>
    ELSE IF Head(line) = Blank THEN Trim(Tail(line))
    ELSE IF line[Len(line)] = Blank THEN Trim(Front(line))
    ELSE line

\* JSON.parse(line): the value, or a SyntaxError
ParseLine(line) ==
    LET text == Trim(line)
    IN  IF \E c \in StreamContents, d \in BOOLEAN :
               text = <<FrameHead(c), FrameTail(d)>>
        THEN LET c == CHOOSE c \in StreamContents : text[1] = FrameHead(c)
             IN  [threw |-> FALSE,
                  value |-> [t |-> "object",
                             message |-> [content |-> c],
                             done |-> (text[2] = FrameTail(TRUE))]]
        ELSE IF text = <<T_number>>
        THEN [threw |-> FALSE, value |-> [t |-> "number"]]
        ELSE [threw |-> TRUE, error |-> "SyntaxError"]

\* the client's conversion of a frame; response.message.content of a value
\* without a message raises a TypeError
convertFromOllamaResponse(response) ==
    IF response.t # "object"
    THEN [threw |-> TRUE, error |-> "TypeError"]
    ELSE [threw |-> FALSE,
          response |->
              [parts |-> <<[text |-> response.message.content]>>,
               finishReason |-> IF response.done THEN "STOP"
                                ELSE "undefined"]]

\* the body of the for loop up to its yield, for one line
VisitLine(line) ==
    IF Trim(line) = <<>>
    THEN [yield |-> FALSE]
    ELSE LET parsed == ParseLine(line)
         IN  IF parsed.threw
             THEN [yield |-> FALSE]
             ELSE LET converted == convertFromOllamaResponse(parsed.value)
                  IN  IF converted.threw
                      THEN [yield |-> FALSE]
                      ELSE [yield |-> TRUE, frame |-> parsed.value,
                            response |-> converted.response]

RECURSIVE ProcessLines_LastFirst(_)
ProcessLines_LastFirst(lines) ==
    IF lines = <<>>
    THEN [yield |-> FALSE]
    ELSE LET visit == VisitLine(lines[Len(lines)])
         IN  IF visit.yield
             THEN [yield |-> TRUE, frame |-> visit.frame,
                   response |-> visit.response, rest |-> Front(lines)]
             ELSE ProcessLines_LastFirst(Front(lines))

RECURSIVE ProcessLines_StopAtSkippedLine(_)
ProcessLines_StopAtSkippedLine(lines) ==
    IF lines = <<>>
    THEN [yield |-> FALSE]
    ELSE LET visit == VisitLine(Head(lines))
         IN  IF visit.yield
             THEN [yield |-> TRUE, frame |-> visit.frame,
                   response |-> visit.response, rest |-> Tail(lines)]
             ELSE IF Trim(Head(lines)) = <<>>
             THEN ProcessLines_StopAtSkippedLine(Tail(lines))
             ELSE [yield |-> FALSE]

RECURSIVE ProcessLines(_)
\* for (const line of lines): runs to the first yield or to the end
ProcessLines(lines) ==
    IF lines = <<>>
    THEN [yield |-> FALSE]
    ELSE LET visit == VisitLine(Head(lines))
         IN  IF visit.yield
             THEN [yield |-> TRUE, frame |-> visit.frame,
                   response |-> visit.response, rest |-> Tail(lines)]
             ELSE ProcessLines(Tail(lines))

\* what the backend can put on one line; the content of the line at
\* position i is the digit i
LineKinds ==
    {"frame", "done", "garbage", "number", "blank"}

LineOf(kind, i) ==
    CASE kind = "frame"   -> <<FrameHead(DigitChar(i)), FrameTail(FALSE)>>
      [] kind = "done"    -> <<FrameHead(DigitChar(i)), FrameTail(TRUE)>>
      [] kind = "garbage" -> <<FrameHead(DigitChar(i))>>
      [] kind = "number"  -> <<T_number>>
      [] kind = "blank"   -> <<Blank>>

RECURSIVE WireOf(_, _)
\* the lines of the given kinds, each but the last followed by a newline;
\* the last one is followed by a newline when terminated
WireOf(kinds, terminated) ==
    IF kinds = <<>> THEN <<>>
    ELSE LET n == Len(kinds)
         IN  WireOf(Front(kinds), TRUE) \o LineOf(kinds[n], n)
                 \o (IF terminated THEN <<NL>> ELSE <<>>)

MaxLines == 3

Wires ==
    {WireOf(kinds, terminated) :
        kinds \in SeqsUpTo(LineKinds, MaxLines), terminated \in BOOLEAN}

StInit ==
    /\ stWire \in Wires
    /\ stPos = 0
    /\ stBuffer = <<>>
    /\ stLines = <<>>
    /\ stFrame = [kind |-> "undefined"]
    /\ stPc = "start"
    /\ stReader = "none"
    /\ stYielded = <<>>
    /\ stOutcome = "running"
    /\ stConsumer = "iterating"

\* the for loop goes on over lines: to its next yield, or to the next read
StContinue(lines) ==
    LET run == ProcessLines(lines)
    IN  IF run.yield
        THEN /\ stPc' = "yielded"
             /\ stFrame' = run.frame
             /\ stYielded' = Append(stYielded, run.response)
             /\ stLines' = run.rest
        ELSE /\ stPc' = "reading"
             /\ stFrame' = [kind |-> "undefined"]
             /\ stYielded' = stYielded
             /\ stLines' = <<>>

\* the generator leaves the try block: finally { reader.releaseLock() }
StFinally(outcome) ==
    /\ stPc' = "finished"
    /\ stOutcome' = outcome
    /\ stReader' = "released"
    /\ stFrame' = [kind |-> "undefined"]
    /\ stLines' = <<>>
    /\ stYielded' = stYielded

\* the generator ends before it has acquired the reader
StEndWithoutReader(outcome) ==
    /\ stPc' = "finished"
    /\ stOutcome' = outcome
    /\ UNCHANGED <<stReader, stFrame, stLines, stYielded>>

\* the consumer's first next(): the generator starts and awaits
\* makeStreamingRequest
StartStream ==
    /\ stPc = "start"
    /\ stPc' = "requesting"
    /\ UNCHANGED <<stWire, stPos, stBuffer, stLines, stFrame, stReader,
                   stYielded, stOutcome, stConsumer>>

\* makeStreamingRequest settles: a response with a body (the reader is
\* acquired), a response without a body (throw before the try block), or
\* the error of the retry loop
StreamRequestSettles ==
    /\ stPc = "requesting"
    /\ \E outcome \in {"body", "no_body", "failed"} :
          IF outcome = "body"
          THEN /\ stReader' = "locked"
               /\ stPc' = "reading"
               /\ UNCHANGED <<stFrame, stLines, stYielded, stOutcome>>
          ELSE StEndWithoutReader("threw")
    /\ UNCHANGED <<stWire, stPos, stBuffer, stConsumer>>

\* reader.read() hands out the next n tokens: decode, split, pop, for loop
ReadChunk ==
    /\ stPc = "reading"
    /\ \E n \in 1..(Len(stWire) - stPos) :
          LET chunk == SubSeq(stWire, stPos + 1, stPos + n)
              lines == Split(stBuffer \o chunk)
          IN  /\ stPos' = stPos + n
              /\ stBuffer' = lines[Len(lines)]
              /\ StContinue(Front(lines))
    /\ UNCHANGED <<stWire, stReader, stOutcome, stConsumer>>

\* reader.read() reports the end of the body: break
ReadEnd ==
    /\ stPc = "reading"
    /\ stPos = Len(stWire)
    /\ StFinally("completed")
    /\ UNCHANGED <<stWire, stPos, stBuffer, stConsumer>>

\* reader.read() rejects (connection error, timeout)
ReadFails ==
    /\ stPc = "reading"
    /\ StFinally("threw")
    /\ UNCHANGED <<stWire, stPos, stBuffer, stConsumer>>

\* next() at a yield: return after a done frame, else the for loop goes on
ResumeAfterYield ==
    /\ stPc = "yielded"
    /\ stConsumer = "iterating"
    /\ IF stFrame.done
       THEN StFinally("completed")
       ELSE StContinue(stLines) /\ UNCHANGED <<stReader, stOutcome>>
    /\ UNCHANGED <<stWire, stPos, stBuffer, stConsumer>>

\* return() on the generator: at a yield the finally block runs; before
\* the first next() the generator just ends
ConsumerReturn ==
    /\ stConsumer = "iterating"
    /\ \/ stPc = "yielded" /\ StFinally("completed")
       \/ stPc = "start" /\ StEndWithoutReader("completed")
    /\ stConsumer' = "returned"
    /\ UNCHANGED <<stWire, stPos, stBuffer>>

\* throw() on the generator: at a yield the exception is raised inside the
\* inner try and its catch block takes it, so the for loop goes on with
\* the next line (the done test is skipped); before the first next() the
\* generator just ends
ConsumerThrow ==
    /\ stConsumer = "iterating"
    /\ \/ /\ stPc = "yielded"
          /\ StContinue(stLines)
          /\ UNCHANGED <<stReader, stOutcome>>
       \/ stPc = "start" /\ StEndWithoutReader("threw")
    /\ stConsumer' = "thrown"
    /\ UNCHANGED <<stWire, stPos, stBuffer>>

StNext ==
    \/ StartStream
    \/ StreamRequestSettles
    \/ ReadChunk
    \/ ReadEnd
    \/ ReadFails
    \/ ResumeAfterYield
    \/ ConsumerReturn
    \/ ConsumerThrow

InitStream ==
    StInit /\ TrIdle /\ RvIdle /\ RqIdle /\ OgIdle /\ DsIdle /\ OpIdle /\ CtIdle /\ SnIdle /\ DgIdle

NextStream ==
    StNext /\ UNCHANGED <<trVars, rvVars, rqVars, ogVars, dsVars, opVars, ctVars, snVars, dgVars>>

SpecStream ==
    InitStream /\ [][NextStream]_vars

\* the generator has run to its end for a consumer that only called next()
CompleteRun ==
    /\ stPc = "finished"
    /\ stOutcome = "completed"
    /\ stConsumer = "iterating"
    /\ stReader = "released"

\* C5: in every complete run of a streaming call, whether the backend has
\* sent a done frame or has just closed the connection, exactly one yielded
\* response has a defined finishReason, and it is the last one yielded.
C5_ExactlyOneFinishReasonLast ==
    CompleteRun =>
        /\ stYielded # <<>>
        /\ stYielded[Len(stYielded)].finishReason # "undefined"
        /\ \A i \in 1..(Len(stYielded) - 1) :
               stYielded[i].finishReason = "undefined"

\* the lines of the body that are followed by a newline
CompleteLines(wire) ==
    Front(Split(wire))

WellFormed(line) ==
    /\ ~ParseLine(line).threw
    /\ ParseLine(line).value.t = "object"

RECURSIVE UpToFirstDone(_)
UpToFirstDone(frames) ==
    IF frames = <<>> THEN <<>>
    ELSE IF Head(frames).done THEN <<Head(frames)>>
    ELSE <<Head(frames)>> \o UpToFirstDone(Tail(frames))

\* the responses of the well-formed lines of the body, up to the first
\* done frame
ExpectedResponses(wire) ==
    LET good   == SelectSeq(CompleteLines(wire), WellFormed)
        frames == [i \in 1..Len(good) |-> ParseLine(good[i]).value]
        kept   == UpToFirstDone(frames)
    IN  [i \in 1..Len(kept) |->
            [parts |-> <<[text |-> kept[i].message.content]>>,
             finishReason |-> IF kept[i].done THEN "STOP" ELSE "undefined"]]

IsPrefix(a, b) ==
    /\ Len(a) <= Len(b)
    /\ a = SubSeq(b, 1, Len(a))

\* C6: for a consumer that only calls next(), the responses yielded so far
\* are, in order, those of the well-formed lines of the body (up to the
\* first done frame), whatever lines that are not valid JSON lie between
\* them; when the generator has run to the end of the body, every one of
\* them has been yielded.
C6_MalformedLineSkipped ==
    stConsumer = "iterating" /\ stPc # "off" =>
        /\ IsPrefix(stYielded, ExpectedResponses(stWire))
        /\ CompleteRun => stYielded = ExpectedResponses(stWire)

C6_Witness ==
    /\ CompleteRun
    /\ stWire = WireOf(<<"frame", "garbage", "frame">>, TRUE)
    /\ Len(stYielded) = 2
    /\ stYielded[1].parts[1].text = "1"
    /\ stYielded[2].parts[1].text = "3"

\* C9: once the reader is acquired, it is released whenever the generator
\* has finished, and whenever the consumer's return() or throw() on the
\* generator has settled.
C9_ReaderReleased ==
    (/\ stReader # "none"
     /\ \/ stPc = "finished"
        \/ stConsumer # "iterating" /\ stPc = "yielded")
        => stReader = "released"

\* translateStreamingResponses applied to every item of the bounded input
\* sets of the response validation
NextStreamItem ==
    TranslateStreamingResponse /\ UNCHANGED <<trVars, rqVars, stVars, ogVars, dsVars, opVars, ctVars, snVars, dgVars>>

SpecStreamItem ==
    InitValidate /\ [][NextStreamItem]_vars

\* C11: the response that a streaming call yields for a frame is the
\* response the validator returns for that frame, also for a frame whose
\* translation raises an error.
C11_StreamYieldsValidatorOutput ==
    rvPc = "streamed" =>
        LET validated ==
                validateAndTranslateResponse(rvResponse, rvModel, rvRegistered)
        IN  /\ ~validated.threw
            /\ rvResult.response = validated.response

(***************************************************************************)
(* Streaming pipeline: translateStreamingResponses on top of the client's  *)
(* generateContentStream.  The for await loop is the only consumer of the  *)
(* client's generator: it calls next() and, when it is left early,         *)
(* return().                                                               *)
(***************************************************************************)
\* what the loop body yields for an item of the client's generator.  The
\* client's items are GenerateContentResponse values: they have no message,
\* so translateResponseFromModel raises on response.message.content and the
\* catch block yields the item itself
OgItemYield(item) ==
    IF "message" \in DOMAIN item
    THEN StreamItemYield(item, rvModel, rvRegistered)
    ELSE item

\* the loop takes what the client's generator has just done: an item is
\* translated and yielded at once, the end of the generator ends the loop
OgReact ==
    IF stPc' = "yielded"
    THEN /\ ogPc' = "yielded"
         /\ ogYielded' =
                Append(ogYielded,
                       [from |-> Len(stYielded'),
                        response |-> OgItemYield(stYielded'[Len(stYielded')])])
    ELSE /\ ogPc' = IF stPc' = "finished" THEN "finished" ELSE "awaiting"
         /\ ogYielded' = ogYielded

OgInit ==
    /\ ogPc = "start"
    /\ ogYielded = <<>>

\* the caller's next(): the loop asks the client's generator for its next
\* item
OgCallerNext ==
    /\ ogPc \in {"start", "yielded"}
    /\ StartStream \/ ResumeAfterYield
    /\ OgReact

\* an await of the client's generator settles while the loop waits for it
OgClientStep ==
    /\ ogPc = "awaiting"
    /\ StreamRequestSettles \/ ReadChunk \/ ReadEnd \/ ReadFails
    /\ OgReact

\* the caller's return(): at the yield the loop is left and for await
\* calls return() on the client's generator
OgCallerReturn ==
    /\ \/ ogPc = "yielded" /\ ConsumerReturn
       \/ ogPc = "start" /\ UNCHANGED stVars
    /\ ogPc' = "finished"
    /\ ogYielded' = ogYielded

\* the caller's throw() at the yield inside the try block: the catch block
\* yields the untranslated item
OgCallerThrow ==
    /\ ogPc = "yielded"
    /\ ogPc' = "yieldedInCatch"
    /\ ogYielded' = Append(ogYielded,
                           [from |-> Len(stYielded),
                            response |-> stYielded[Len(stYielded)]])
    /\ UNCHANGED stVars

OgNext ==
    \/ OgCallerNext
    \/ OgClientStep
    \/ OgCallerReturn
    \/ OgCallerThrow

InitPipeline ==
    StInit /\ OgInit /\ DsIdle /\ TrIdle /\ RvIdle /\ RqIdle /\ OpIdle /\ CtIdle /\ SnIdle /\ DgIdle

NextPipeline ==
    OgNext /\ UNCHANGED <<trVars, rvVars, rqVars, dsVars, opVars, ctVars, snVars, dgVars>>

SpecPipeline ==
    InitPipeline /\ [][NextPipeline]_vars

C12_InOrder ==
    ogPc # "yieldedInCatch" =>
        /\ Len(ogYielded) = Len(stYielded)
        /\ \A i \in 1..Len(ogYielded) : ogYielded[i].from = i
        /\ IsPrefix(stYielded, ExpectedResponses(stWire))

D_placeholder ==
    <<"N", "o", " ", "d", "e", "s", "c", "r", "i", "p", "t", "i",
      "o", "n", " ", "p", "r", "o", "v", "i", "d", "e", "d">>

Truncate_NoRoomForMarker(sanitized, maxLength) ==
    IF Len(sanitized) > maxLength
    THEN SubSeq(sanitized, 1, maxLength) \o <<".", ".", ".">>
    ELSE sanitized

\* if (sanitized.length > maxLength)
\*     sanitized = sanitized.substring(0, maxLength - 3) + '...'
Truncate(sanitized, maxLength) ==
    IF Len(sanitized) > maxLength
    THEN SubSeq(sanitized, 1, maxLength - 3) \o <<".", ".", ".">>
    ELSE sanitized

sanitizeDescription(description, capabilities) ==
    LET D_function_to ==
            <<"F", "u", "n", "c", "t", "i", "o", "n", " ", "t", "o", " ">>
        IsWs(c) == c \in WhitespaceChars
        NotAngle(c) == c \notin {"<", ">"}
        \* .replace(/[<>]/g, '')
        noAngle == SelectSeq(description, NotAngle)
        \* .replace(/\n\s*\n/g, '\n'): in a run of whitespace everything
        \* after its first newline up to its last newline goes
        Collapsed(i) ==
            /\ IsWs(noAngle[i])
            /\ \E j \in 1..(i - 1) :
                   /\ noAngle[j] = "\n"
                   /\ \A k \in j..i : IsWs(noAngle[k])
            /\ \E j \in i..Len(noAngle) :
                   /\ noAngle[j] = "\n"
                   /\ \A k \in i..j : IsWs(noAngle[k])
        Stays(at) == ~Collapsed(at[1])
        kept == SelectSeq([i \in 1..Len(noAngle) |-> <<i, noAngle[i]>>], Stays)
        oneLine == [n \in 1..Len(kept) |-> kept[n][2]]
        \* .trim()
        trimmed ==
            IF \A i \in 1..Len(oneLine) : IsWs(oneLine[i])
            THEN <<>>
            ELSE SubSeq(oneLine,
                        CHOOSE i \in 1..Len(oneLine) :
                            /\ ~IsWs(oneLine[i])
                            /\ \A j \in 1..(i - 1) : IsWs(oneLine[j]),
                        CHOOSE i \in 1..Len(oneLine) :
                            /\ ~IsWs(oneLine[i])
                            /\ \A j \in (i + 1)..Len(oneLine) : IsWs(oneLine[j]))
        lower == toLowerCase(trimmed)
        explicit ==
            IF /\ capabilities.toolFormat = "hermes"
               /\ ~Includes(lower, <<"f", "u", "n", "c", "t", "i", "o", "n">>)
               /\ ~Includes(lower, <<"t", "o", "o", "l">>)
            THEN D_function_to \o lower
            ELSE trimmed
    IN  IF description = <<>>
        THEN D_placeholder
        ELSE Truncate(explicit,
                      IF capabilities.toolFormat = "custom" THEN 200 ELSE 500)

\* the description that convertToOpenAIFormat, convertToHermesFormat and
\* convertToCustomFormat give the converted tool
convertedDescription(declared, capabilities) ==
    LET D_hermes_hint ==
            <<"\n", "\n", "U", "s", "e", " ", "t", "h", "i", "s", " ", "t",
            "o", "o", "l", " ", "w", "h", "e", "n", " ", "y", "o", "u",
            " ", "n", "e", "e", "d", " ", "t", "o", " ">>
        D_coder_hint ==
            <<"\n", "\n", "U", "s", "a", "g", "e", ":", " ", "C", "a", "l",
            "l", " ", "t", "h", "i", "s", " ", "f", "u", "n", "c", "t",
            "i", "o", "n", " ", "w", "h", "e", "n", " ", "y", "o", "u",
            " ", "n", "e", "e", "d", " ", "t", "o", " ">>
        D_coder_tail ==
            <<".", "\n", "T", "h", "i", "n", "k", " ", "s", "t", "e", "p",
            " ", "b", "y", " ", "s", "t", "e", "p", " ", "b", "e", "f",
            "o", "r", "e", " ", "c", "a", "l", "l", "i", "n", "g", " ",
            "t", "h", "i", "s", " ", "f", "u", "n", "c", "t", "i", "o",
            "n", ".">>
        description == IF declared.present THEN declared.text ELSE <<>>
        hermes == description \o D_hermes_hint \o toLowerCase(description)
                      \o <<".">>
        coder == description \o D_coder_hint \o toLowerCase(description)
                     \o D_coder_tail
    IN  IF capabilities.toolFormat = "hermes"
        THEN sanitizeDescription(hermes, capabilities)
        ELSE IF /\ capabilities.toolFormat = "custom"
                /\ capabilities.customParser = "qwen3coder"
        THEN sanitizeDescription(coder, capabilities)
        ELSE sanitizeDescription(description, capabilities)

\* the dialects: the two of the registry, and toolFormat custom with and
\* without the qwen3coder parser
DialectCaps ==
    {getModelCapabilities(K_mistral_latest),
     getModelCapabilities(MODEL_CAPABILITIES[1][1]),
     Caps("custom", 16, FALSE, TRUE, "qwen3coder", "hermes", "good"),
     Caps("custom", 16, FALSE, TRUE, "undefined", "standard", "good")}

MaxDescriptionLength == 510

Repeat(c, n) ==
    [i \in 1..n |-> c]

DescriptionTexts ==
    {Repeat("a", n) : n \in 0..MaxDescriptionLength}
    \cup {<<"<", ">">>, <<" ">>, <<" ", "<", " ", ">", "\n">>,
          <<"S", "e", "a", "r", "c", "h", " ", "f", "i", "l", "e", "s">>,
          <<"A", " ", "T", "o", "o", "l", "<", "b", ">">>,
          <<"a", "\n", " ", "\n", "\n", "b", "\n", " ">>}
    \cup {<<"\n", "\n">> \o Repeat("<", n) \o Repeat("b", n) :
              n \in {100, 250, MaxDescriptionLength}}

DeclaredDescriptions ==
    {[present |-> FALSE, text |-> <<>>]}
    \cup {[present |-> TRUE, text |-> t] : t \in DescriptionTexts}

DsInit ==
    /\ dsDescription \in DeclaredDescriptions
    /\ dsCaps \in DialectCaps
    /\ dsPc = "input"
    /\ dsOut = <<>>

\* convertSingleTool for a function declaration with this description
ConvertDescription ==
    /\ dsPc = "input"
    /\ dsOut' = convertedDescription(dsDescription, dsCaps)
    /\ dsPc' = "converted"
    /\ UNCHANGED <<dsDescription, dsCaps>>

InitDescribe ==
    DsInit /\ TrIdle /\ RvIdle /\ RqIdle /\ StIdle /\ OgIdle /\ OpIdle /\ CtIdle /\ SnIdle /\ DgIdle

NextDescribe ==
    ConvertDescription /\ UNCHANGED <<trVars, rvVars, rqVars, stVars, ogVars, opVars, ctVars, snVars, dgVars>>

SpecDescribe ==
    InitDescribe /\ [][NextDescribe]_vars

\* C13: the description of a converted tool is never longer than 200
\* characters for toolFormat custom and 500 characters for the other
\* formats, hint, prefix and '...' marker included.
C13_DescriptionWithinMaxLength ==
    dsPc = "converted" =>
        Len(dsOut) <= (IF dsCaps.toolFormat = "custom" THEN 200 ELSE 500)

\* a long description for a hermes model: cut to 500 characters that end
\* with the marker
C13_Witness ==
    /\ dsPc = "converted"
    /\ dsCaps.toolFormat = "hermes"
    /\ Len(dsDescription.text) = 300
    /\ Len(dsOut) = 500
    /\ SubSeq(dsOut, 498, 500) = <<".", ".", ".">>

\* the description is absent, empty, or empty once angle brackets are
\* removed and whitespace is trimmed
EmptyDescription(declared) ==
    \/ ~declared.present
    \/ \A i \in 1..Len(declared.text) :
           declared.text[i] \in WhitespaceChars \cup {"<", ">"}

\* C14: in every dialect the converted tool of a declaration with an empty
\* description has the description 'No description provided', and no
\* converted tool has a blank description.
C14_EmptyDescriptionGetsPlaceholder ==
    dsPc = "converted" =>
        /\ EmptyDescription(dsDescription) => dsOut = D_placeholder
        /\ \E i \in 1..Len(dsOut) : dsOut[i] \notin WhitespaceChars

\* C15: when translateToolsToModel is offered more tools than the model's
\* maxTools, the tools it returns are those of the first maxTools entries
\* of the input, in their order (entries without a function declaration
\* have none), and exactly one truncation warning is emitted; when no more
\* than maxTools are offered, no truncation warning is emitted.
C15_FirstMaxToolsOneWarning ==
    (trPc = "translatedToModel" /\ SupportsTools(trCaps)) =>
        LET truncations ==
                Cardinality({i \in 1..Len(trWarnings) :
                                 trWarnings[i] = "truncating"})
            first == SelectSeq(Slice0(trTools, trCaps.maxTools), HasValidDecls)
        IN  IF Len(trTools) > trCaps.maxTools
            THEN /\ truncations = 1
                 /\ Len(trOut) = Len(first)
                 /\ \A i \in 1..Len(first) :
                        trOut[i].name = first[i].functionDeclarations[1].name
            ELSE truncations = 0

(***************************************************************************)
(* Prompt engineer: the system prompt with the tool section appended.      *)
(* A prompt is the sequence of its lines; a line of the tool list is a     *)
(* record with the listed function's name.  The rule lines that follow     *)
(* the tool list are reduced to their heading.                             *)
(***************************************************************************)
TextLine(text) ==
    [kind |-> "text", text |-> text]

extractToolList(tools) ==
    LET RECURSIVE collect(_)
        collect(i) ==
            IF i > Len(tools) THEN <<>>
            ELSE (IF tools[i].hasDecls
                  THEN [k \in 1..Len(tools[i].functionDeclarations) |->
                           [name |-> tools[i].functionDeclarations[k].name,
                            description |-> "No description available"]]
                  ELSE <<>>) \o collect(i + 1)
    IN  collect(1)

ToolLines(tools) ==
    LET toolList == extractToolList(tools)
    IN  [k \in 1..Len(toolList) |->
            [kind |-> "tool", name |-> toolList[k].name,
             description |-> toolList[k].description]]

generateToolInstructions(tools, capabilities) ==
    CASE capabilities.promptStyle = "hermes" ->
            <<TextLine("## Available Tools"), TextLine(""),
              TextLine("You have access to the following tools:")>>
            \o ToolLines(tools)
            \o <<TextLine(""), TextLine("## Tool Usage Guidelines")>>
      [] capabilities.promptStyle = "agentic" ->
            <<TextLine("## Agentic Tool Usage"), TextLine(""),
              TextLine("### Available Tools:")>>
            \o ToolLines(tools)
            \o <<TextLine(""), TextLine("### Agentic Principles:")>>
      [] OTHER ->
            <<TextLine("## Function Calling"), TextLine(""),
              TextLine("Available functions:")>>
            \o ToolLines(tools)
            \o <<TextLine(""), TextLine("## Usage Rules:")>>

enhanceSystemPrompt(basePrompt, modelName, tools) ==
    LET capabilities == getModelCapabilities(modelName)
    IN  IF ~SupportsTools(capabilities) \/ Len(tools) = 0
        THEN basePrompt
        ELSE basePrompt \o <<TextLine("")>>
                 \o generateToolInstructions(tools, capabilities)

BasePrompts ==
    {<<>>, <<TextLine("You are a coding assistant.")>>}

\* one call of enhanceSystemPrompt; trOut keeps the call's base prompt
\* beside the returned prompt
EnhanceSystemPrompt ==
    /\ trPc = "input"
    /\ \E basePrompt \in BasePrompts :
           trOut' = [basePrompt |-> basePrompt,
                     prompt |-> enhanceSystemPrompt(basePrompt, trModel,
                                                    trTools)]
    /\ trCaps' = getModelCapabilities(trModel)
    /\ trPc' = "enhanced"
    /\ UNCHANGED <<trModel, trTools, trWarnings>>

InitPrompt ==
    TrInit /\ RvIdle /\ RqIdle /\ StIdle /\ OgIdle /\ DsIdle /\ OpIdle /\ CtIdle /\ SnIdle /\ DgIdle

NextPrompt ==
    EnhanceSystemPrompt /\ UNCHANGED <<rvVars, rqVars, stVars, ogVars, dsVars, opVars, ctVars, snVars, dgVars>>

SpecPrompt ==
    InitPrompt /\ [][NextPrompt]_vars

\* C16: enhanceSystemPrompt returns the base prompt unchanged whenever the
\* model does not support tools or the tools declare no function to list,
\* and whenever the returned prompt differs from the base prompt its tool
\* section lists at least one tool.
C16_ToolSectionNeverEmpty ==
    trPc = "enhanced" =>
        /\ (~SupportsTools(trCaps) \/ extractToolList(trTools) = <<>>)
               => trOut.prompt = trOut.basePrompt
        /\ trOut.prompt # trOut.basePrompt
               => \E k \in 1..Len(trOut.prompt) : trOut.prompt[k].kind = "tool"

(***************************************************************************)
(* Content generator: the error its caller receives when the client's      *)
(* request has failed on every attempt.  A message is the sequence of its  *)
(* words; includes() is the presence of a word.  The texts of the errors   *)
(* raised by fetch and response.json() are those of Node's fetch.          *)
(***************************************************************************)
E_baseUrl == "http://192.168.98.100:11434"

E_defaultModel == "qwen2.5-coder:32b"

E_timeout == "120000ms."

\* `${error}` for the error caught in the last attempt
CaughtText(kind, cause) ==
    CASE cause = "http_error" ->
            <<"Error:", "Ollama">>
            \o (IF kind = "json" THEN <<"API">> ELSE <<"streaming">>)
            \o <<"request", "failed:", "500", "Internal", "Server", "Error">>
      [] cause = "network_error" -> <<"TypeError:", "fetch", "failed">>
      [] cause = "timeout" ->
            <<"TimeoutError:", "The", "operation", "was", "aborted", "due",
              "to", "timeout">>
      [] OTHER -> <<"SyntaxError:", "Unexpected", "end", "of", "JSON", "input">>

\* the message of the error makeRequest or makeStreamingRequest throws in
\* its last attempt
ExhaustedMessage(kind, error) ==
    <<"Ollama">> \o (IF kind = "json" THEN <<>> ELSE <<"streaming">>)
    \o <<"request", "failed", "after", ToString(error.attempts), "attempts:">>
    \o CaughtText(kind, error.cause)

includes(message, word) ==
    \E i \in 1..Len(message) : message[i] = word

enhanceError(baseMessage, operation) ==
    IF includes(baseMessage, "fetch") \/ includes(baseMessage, "ECONNREFUSED")
    THEN <<"Failed", "to", "connect", "to", "Ollama", "server", "at",
           E_baseUrl, "Original", "error:">> \o baseMessage
    ELSE IF includes(baseMessage, "model") /\ includes(baseMessage, "not found")
    THEN <<"Model", E_defaultModel, "not found", "on", "Ollama", "server.",
           "Original", "error:">> \o baseMessage
    ELSE IF includes(baseMessage, "timeout") \/ includes(baseMessage, "AbortError")
    THEN <<"Ollama", "request", "timed", "out", "after", E_timeout,
           "Original", "error:">> \o baseMessage
    ELSE <<"Ollama", operation, "failed:">> \o baseMessage
         \o <<"Server:", E_baseUrl, "Model:", E_defaultModel>>

OperationOf(kind) ==
    IF kind = "json" THEN "generateContent" ELSE "generateContentStream"

\* The error leaves the client.  generateContent awaits the client's call
\* inside its try block, so its catch block wraps the error.  The client's
\* generateContentStream is an async generator: the awaited call inside
\* the try block only creates it, and the request is made when the
\* consumer first asks translateStreamingResponses for an item, after
\* generateContentStream has returned, so the error reaches the consumer
\* as the client threw it.
CallerReceivesError ==
    /\ rqPc = "thrown"
    /\ rqPc' = "received"
    /\ rqError' =
          [message |->
              IF rqKind = "json"
              THEN enhanceError(ExhaustedMessage(rqKind, rqError),
                                OperationOf(rqKind))
              ELSE ExhaustedMessage(rqKind, rqError)]
    /\ UNCHANGED <<rqKind, rqMaxRetries, rqAttempt, rqLog, rqDelay,
                   rqCancelled>>

NextFailure ==
    (RqNext \/ CallerReceivesError)
        /\ UNCHANGED <<trVars, rvVars, stVars, ogVars, dsVars, opVars, ctVars, snVars, dgVars>>

SpecFailure ==
    InitRequest /\ [][NextFailure]_vars

\* C17: when every attempt has failed, the error that the caller of
\* generateContent or the consumer of generateContentStream receives names
\* the server URL, the model, the operation and the number of attempts.
C17_ErrorNamesUrlModelOperationAttempts ==
    rqPc = "received" =>
        \A word \in {E_baseUrl, E_defaultModel, OperationOf(rqKind),
                     ToString(rqMaxRetries + 1)} :
            includes(rqError.message, word)

\* C18: when neither the model id nor its normalized form is a key of the
\* registry, getModelCapabilities returns the entry of the first key, in
\* table order, that the normalized id contains or that contains the
\* normalized id, and the default capabilities when there is no such key.
C18_FamilyMatchOnNormalizedId ==
    LET normalizedName == normalizeModelName(trModel)
        Related(knownModel) ==
            Includes(normalizedName, knownModel)
                \/ Includes(knownModel, normalizedName)
        related == {i \in 1..Len(MODEL_CAPABILITIES) :
                        Related(MODEL_CAPABILITIES[i][1])}
    IN  (/\ trPc = "looked"
         /\ TableGet(trModel).kind = "undefined"
         /\ TableGet(normalizedName).kind = "undefined")
        => IF related = {}
           THEN trCaps = DEFAULT_MODEL_CAPABILITIES
           ELSE trCaps = MODEL_CAPABILITIES[
                             CHOOSE i \in related :
                                 \A j \in related : i <= j][2]

\* a raw call of a registered name whose arguments are neither a
\* non-null object nor a string that parses to one
UnstructuredRegisteredCall(toolCall) ==
    /\ toolCall.hasFunction
    /\ toolCall.name.t = "string"
    /\ toolCall.name.s \in DeclaredNames(rvRegistered)
    /\ ~StructuredArguments(toolCall)

\* C19: the args of every function call of the returned response is a
\* non-null object, and every raw call of a registered name whose
\* arguments are null, a string that does not parse, or a string that
\* parses to null or to a value that is no object is counted in
\* invalidJsonCalls.
C19_EmittedArgsAreObjects ==
    Returned =>
        /\ \A i \in 1..Len(FunctionCallsOf(rvResult.response)) :
               FunctionCallsOf(rvResult.response)[i].args.t = "object"
        /\ rvResult.stats.invalidJsonCalls =
               Cardinality({i \in 1..Len(RawCalls) :
                                UnstructuredRegisteredCall(RawCalls[i])})

\* C20: in the stats of a returned response totalToolCalls is
\* validToolCalls + hallucinatedToolCalls, validToolCalls is the number of
\* function calls of the response, every dropped call is counted in at
\* most one of unknownToolCalls (its name is not registered) and
\* invalidJsonCalls (its name is registered and its arguments are
\* rejected), and unknownToolCalls + invalidJsonCalls is at most
\* hallucinatedToolCalls.
C20_StatsConsistent ==
    Returned =>
        LET stats == rvResult.stats
            unknown == {i \in 1..Len(RawCalls) :
                            ~findRegisteredTool(RawCalls[i].name, rvRegistered)}
            invalid == {i \in 1..Len(RawCalls) :
                            /\ i \notin unknown
                            /\ ~validateToolCallArguments(RawCalls[i])}
        IN  /\ stats.totalToolCalls
                   = stats.validToolCalls + stats.hallucinatedToolCalls
            /\ stats.validToolCalls
                   = Len(FunctionCallsOf(rvResult.response))
            /\ stats.unknownToolCalls = Cardinality(unknown)
            /\ stats.invalidJsonCalls = Cardinality(invalid)
            /\ stats.unknownToolCalls + stats.invalidJsonCalls
                   <= stats.hallucinatedToolCalls

\* a response with two dropped calls: one dropped by a model-specific
\* rule, counted in neither counter, and one of an unregistered name
C20_Witness ==
    /\ Returned
    /\ rvResult.stats.totalToolCalls = 2
    /\ rvResult.stats.hallucinatedToolCalls = 2
    /\ rvResult.stats.unknownToolCalls = 1
    /\ rvResult.stats.invalidJsonCalls = 0

\* C21: the number of warnings in the stats of a returned response
\* equals the number of dropped tool calls.
C21_OneWarningPerDroppedCall ==
    Returned =>
        Len(rvResult.stats.warnings) = rvResult.stats.hallucinatedToolCalls

\* C21 as amended: the stats hold one warning per dropped call, followed,
\* when at least one call was dropped, by one summary warning; they hold
\* no warning when nothing was dropped.
C21_WarningPerDroppedCallAndSummary ==
    Returned =>
        LET warnings == rvResult.stats.warnings
            droppedCalls == rvResult.stats.hallucinatedToolCalls
        IN  IF droppedCalls = 0
            THEN warnings = <<>>
            ELSE /\ Len(warnings) = droppedCalls + 1
                 /\ warnings[Len(warnings)] = "Filtered hallucinated tool calls"
                 /\ \A i \in 1..droppedCalls :
                        warnings[i] # "Filtered hallucinated tool calls"

\* two dropped calls, one of them by a model-specific rule: three warnings
C21_Witness ==
    /\ Returned
    /\ rvResult.stats.hallucinatedToolCalls = 2
    /\ rvResult.stats.unknownToolCalls + rvResult.stats.invalidJsonCalls = 1
    /\ Len(rvResult.stats.warnings) = 3

\* C22: the wait after the failed attempt number k is
\* min(1000 * 2^k, 10000) ms: it is never shorter than the wait before it
\* and never longer than 10000 ms; a wait follows a failed attempt that
\* is not the final one and is followed by the next attempt; outside a
\* wait, and so after the final failed attempt, no delay is pending.
C22_InWait ==
    /\ rqDelay = Min(1000 * 2^rqAttempt, 10000)
    /\ rqDelay <= 10000
    /\ rqAttempt > 0 => rqDelay >= Min(1000 * 2^(rqAttempt - 1), 10000)
    /\ rqAttempt < rqMaxRetries
    /\ Len(rqLog) = rqAttempt + 1
    /\ rqLog[Len(rqLog)] # "ok"

C22_BackoffWaits ==
    /\ [](IF rqPc = "backoff" THEN C22_InWait ELSE rqDelay = 0)
    /\ [][(rqPc = "backoff" /\ rqPc' # "backoff")
              => (rqPc' = "fetching" /\ rqAttempt' = rqAttempt + 1)]_vars
    /\ [][(rqPc # "backoff" /\ rqPc' = "backoff")
              => rqPc \in {"fetching", "parsing"}]_vars

\* the wait after the fifth failed attempt: the cap is reached
C22_Witness ==
    /\ rqPc = "backoff"
    /\ rqAttempt = 4
    /\ rqDelay = 10000

(***************************************************************************)
(* Request builders: the options of the outbound chat request.  An options *)
(* object is a function on OptionKeys; a key it does not have reads as     *)
(* undefined.                                                              *)
(***************************************************************************)
OptionKeys ==
    {"temperature", "top_p", "max_tokens", "top_k", "seed"}

NoOptions ==
    [key \in OptionKeys |-> JUndefined]

\* the options set from request.config (the same in both builders, but
\* for top_k, which only buildOllamaOptions copies)
FromGenerationConfig(genConfig, withTopK) ==
    IF genConfig.kind = "undefined"
    THEN NoOptions
    ELSE [key \in OptionKeys |->
             CASE key = "temperature" -> genConfig.temperature
               [] key = "top_p" -> genConfig.topP
               [] key = "max_tokens" -> genConfig.maxOutputTokens
               [] key = "top_k" -> IF withTopK THEN genConfig.topK ELSE JUndefined
               [] OTHER -> JUndefined]

\* the option of advancedOptions that is copied to this key
AdvancedOption(advancedOptions, key) ==
    CASE key = "temperature" -> advancedOptions.temperature
      [] key = "top_p" -> advancedOptions.topP
      [] key = "max_tokens" -> advancedOptions.maxTokens
      [] OTHER -> JUndefined

\* OllamaConverter.buildOllamaOptions
buildOllamaOptions(genConfig, advancedOptions) ==
    LET options == FromGenerationConfig(genConfig, TRUE)
        withAdvanced ==
            [key \in OptionKeys |->
                IF /\ AdvancedOption(advancedOptions, key).t # "undefined"
                   /\ options[key].t = "undefined"
                THEN AdvancedOption(advancedOptions, key)
                ELSE options[key]]
    IN  IF advancedOptions.kind = "undefined"
        THEN options
        ELSE [key \in OptionKeys |->
                 IF withAdvanced[key].t = "undefined"
                 THEN advancedOptions.customOptions[key]
                 ELSE withAdvanced[key]]

\* OllamaClient.convertToOllamaRequest: the options it builds
clientOptions(genConfig, advancedOptions) ==
    LET options == FromGenerationConfig(genConfig, FALSE)
        withAdvanced ==
            [key \in OptionKeys |->
                IF /\ AdvancedOption(advancedOptions, key).t # "undefined"
                   /\ ~Truthy(options[key])
                THEN AdvancedOption(advancedOptions, key)
                ELSE options[key]]
    IN  IF advancedOptions.kind = "undefined"
        THEN options
        ELSE \* Object.assign(options, advancedOptions.customOptions)
             [key \in OptionKeys |->
                 IF advancedOptions.customOptions[key].t # "undefined"
                 THEN advancedOptions.customOptions[key]
                 ELSE withAdvanced[key]]

\* values of the request's generation config and of the advanced options
RequestValues ==
    {JUndefined, JNum("0"), JNum("0.2")}

AdvancedValues ==
    {JUndefined, JNum("0.7")}

GenerationConfigs ==
    {[kind |-> "undefined"]} \cup
    {[kind |-> "config", temperature |-> t, topP |-> p,
      maxOutputTokens |-> m, topK |-> JUndefined] :
         t \in RequestValues, p \in RequestValues,
         m \in {JUndefined, JNum("0")}}

AdvancedOptionSets ==
    {[kind |-> "undefined"]} \cup
    {[kind |-> "advanced", temperature |-> t, topP |-> p, maxTokens |-> m,
      customOptions |-> c] :
         t \in AdvancedValues, p \in AdvancedValues, m \in AdvancedValues,
         c \in {[key \in OptionKeys |->
                    IF key \in set THEN JNum("0.9") ELSE JUndefined] :
                set \in {{}, {"temperature"}, {"top_p", "seed"},
                         {"max_tokens", "temperature"}}}}

OpInit ==
    /\ opConfig \in GenerationConfigs
    /\ opAdvanced \in AdvancedOptionSets
    /\ opPc = "input"
    /\ opOut = [kind |-> "undefined"]

\* OllamaConverter.geminiToOllama builds the request's options
GeminiToOllama ==
    /\ opPc = "input"
    /\ opOut' = buildOllamaOptions(opConfig, opAdvanced)
    /\ opPc' = "converter"
    /\ UNCHANGED <<opConfig, opAdvanced>>

\* OllamaClient.convertToOllamaRequest builds the request's options
ConvertToOllamaRequest ==
    /\ opPc = "input"
    /\ opOut' = clientOptions(opConfig, opAdvanced)
    /\ opPc' = "client"
    /\ UNCHANGED <<opConfig, opAdvanced>>

InitOptions ==
    OpInit /\ TrIdle /\ RvIdle /\ RqIdle /\ StIdle /\ OgIdle /\ DsIdle /\ CtIdle /\ SnIdle /\ DgIdle

NextOptions ==
    (GeminiToOllama \/ ConvertToOllamaRequest)
        /\ UNCHANGED <<trVars, rvVars, rqVars, stVars, ogVars, dsVars, ctVars, snVars, dgVars>>

SpecOptions ==
    InitOptions /\ [][NextOptions]_vars

\* the value the precedence rule gives a key: the request's, else the
\* advanced option's, else the custom option's
ByPrecedence(key) ==
    LET requested == FromGenerationConfig(opConfig, TRUE)[key]
        advanced == IF opAdvanced.kind = "undefined" THEN JUndefined
                    ELSE AdvancedOption(opAdvanced, key)
        custom == IF opAdvanced.kind = "undefined" THEN JUndefined
                  ELSE opAdvanced.customOptions[key]
    IN  IF requested.t # "undefined" THEN requested
        ELSE IF advanced.t # "undefined" THEN advanced
        ELSE custom

\* C23: in the options either builder produces, temperature, top_p and
\* max_tokens hold the value of the request's generation config when it
\* sets one (0 included), else the value of the advanced options, else the
\* custom option of that key.
C23_RequestOverAdvancedOverCustom ==
    opPc \in {"converter", "client"} =>
        \A key \in {"temperature", "top_p", "max_tokens"} :
            opOut[key] = ByPrecedence(key)

\* C24: in makeRequest, an attempt that ends with a 2xx response whose
\* body is not valid JSON ends the request with a thrown error: it is
\* followed by no backoff wait and no further attempt.
C24_InvalidJsonIsFatal ==
    [][(/\ rqKind = "json"
        /\ rqPc = "parsing"
        /\ rqLog' = Append(rqLog, "invalid_json"))
           => (rqPc' = "thrown" /\ rqDelay' = 0)]_vars

\* the names of the functions offered to the model in the request: the
\* tools translateRequestToModel puts into the request
OfferedNames ==
    LET offered == translateToolsToModel(rvRegistered, rvModel).tools
    IN  {offered[k].name : k \in 1..Len(offered)}

MaxFrames == 2

StreamFrames ==
    {ChatResponse(<<"o", "k">>, FALSE, <<>>, FALSE),
     ChatResponse(<<>>, TRUE, <<ToolCall(NameStr(N_search), ArgsQuery)>>, FALSE),
     ChatResponse(<<>>, TRUE, <<ToolCall(NameStr(N_angle), ArgsQuery)>>, TRUE)}

CtInit ==
    /\ ctModel \in {K_mistral_latest, B_foo_bar \o X_9b}
    /\ ctRegistered \in RegisteredToolSets
    /\ ctAtStart = <<>>
    /\ ctFrames \in SeqsUpTo(StreamFrames, MaxFrames)
    /\ ctYielded = <<>>
    /\ ctPc = "idle"

\* generateContentStream: the request is translated with the registered
\* tools and the generator of translateStreamingResponses is returned
GenerateContentStream ==
    /\ ctPc = "idle"
    /\ ctAtStart' = ctRegistered
    /\ ctPc' = "streaming"
    /\ UNCHANGED <<ctModel, ctRegistered, ctFrames, ctYielded>>

\* one turn of the for await loop: the next item is translated with
\* this.registeredTools as it is now, and the response is yielded
TranslateNextItem ==
    /\ ctPc = "streaming"
    /\ ctFrames # <<>>
    /\ ctYielded' =
           Append(ctYielded,
                  [item |-> Head(ctFrames),
                   response |-> StreamItemYield(Head(ctFrames), ctModel,
                                                ctRegistered)])
    /\ ctFrames' = Tail(ctFrames)
    /\ UNCHANGED <<ctModel, ctRegistered, ctAtStart, ctPc>>

\* the client's stream ends
StreamEnds ==
    /\ ctPc = "streaming"
    /\ ctFrames = <<>>
    /\ ctPc' = "finished"
    /\ UNCHANGED <<ctModel, ctRegistered, ctAtStart, ctFrames, ctYielded>>

\* the application calls setAvailableTools while the generator is
\* suspended
SetAvailableTools ==
    /\ ctPc \in {"idle", "streaming"}
    /\ \E tools \in RegisteredToolSets : ctRegistered' = tools
    /\ UNCHANGED <<ctModel, ctAtStart, ctFrames, ctYielded, ctPc>>

InitConcurrent ==
    CtInit /\ TrIdle /\ RvIdle /\ RqIdle /\ StIdle /\ OgIdle /\ DsIdle /\ OpIdle /\ SnIdle /\ DgIdle

NextConcurrent ==
    (GenerateContentStream \/ TranslateNextItem \/ StreamEnds
         \/ SetAvailableTools)
        /\ UNCHANGED <<trVars, rvVars, rqVars, stVars, ogVars, dsVars, opVars, snVars, dgVars>>

SpecConcurrent ==
    InitConcurrent /\ [][NextConcurrent]_vars

ResponsesOfAllLines(wire) ==
    LET good   == SelectSeq(Split(wire), WellFormed)
        frames == [i \in 1..Len(good) |-> ParseLine(good[i]).value]
        kept   == UpToFirstDone(frames)
    IN  [i \in 1..Len(kept) |->
            [parts |-> <<[text |-> kept[i].message.content]>>,
             finishReason |-> IF kept[i].done THEN "STOP" ELSE "undefined"]]

\* C27: when generateContentStream has run to the end of the body, it has
\* yielded, once each and in order, the responses of all well-formed
\* frames received (up to the first done frame), however the body was
\* split into reads, a last frame without a newline after it included.
C27_YieldedDependsOnBytesOnly ==
    CompleteRun => stYielded = ResponsesOfAllLines(stWire)

\* the text of a translated response: its text parts, concatenated
TextOf(response) ==
    LET RECURSIVE concat(_)
        concat(i) ==
            IF i > Len(response.parts) THEN <<>>
            ELSE (IF "text" \in DOMAIN response.parts[i]
                  THEN response.parts[i].text ELSE <<>>) \o concat(i + 1)
    IN  concat(1)

\* C28: the text of the translated response equals the content of the
\* backend's message, also when the content is only whitespace.
C28_TextPreserved ==
    Returned => TextOf(rvResult.response) = rvResponse.message.content

(***************************************************************************)
(* Converter: sanitizeRequest and the messages the client builds from the  *)
(* sanitized request.  A JavaScript value of the contents is a record:     *)
(* isString for a string (its text in text), hasText / hasRole / hasParts  *)
(* for the properties text, role and parts of an object, indexed for the   *)
(* characters an object holds under index keys (a spread string), data for *)
(* an inlineData part.                                                     *)
(***************************************************************************)
SnValue(isString, hasText, text, hasRole, role, hasParts, parts, data) ==
    [isString |-> isString, hasText |-> hasText, text |-> text,
     hasRole |-> hasRole, role |-> role, hasParts |-> hasParts,
     parts |-> parts, data |-> data, indexed |-> ""]

SnString(text) ==
    SnValue(TRUE, FALSE, text, FALSE, "", FALSE, <<>>, FALSE)

SnText(text) ==
    SnValue(FALSE, TRUE, text, FALSE, "", FALSE, <<>>, FALSE)

SnInlineData ==
    SnValue(FALSE, FALSE, "", FALSE, "", FALSE, <<>>, TRUE)

SnContent(role, parts) ==
    SnValue(FALSE, FALSE, "", TRUE, role, TRUE, parts, FALSE)

\* typeof part === 'string' || 'text' in part
IsTextPart(part) ==
    part.isString \/ part.hasText

\* ({...content, parts: content.parts?.filter(...) || []})
SanitizeContent(content) ==
    [content EXCEPT
        !.isString = FALSE,
        !.text = IF content.isString THEN "" ELSE content.text,
        !.indexed = IF content.isString THEN content.text ELSE content.indexed,
        !.hasParts = TRUE,
        !.parts = IF content.hasParts
                  THEN SelectSeq(content.parts, IsTextPart) ELSE <<>>]

\* the contents of the sanitized request
SanitizeContents(contents) ==
    IF contents.shape = "undefined"
    THEN contents
    ELSE LET list == IF contents.shape = "array"
                     THEN contents.items ELSE <<contents.value>>
         IN  [shape |-> "array",
              items |-> [i \in 1..Len(list) |-> SanitizeContent(list[i])]]

\* request.config after delete sanitized.config.toolConfig, which acts on
\* the config object the caller's request shares with the shallow copy
AfterDeleteToolConfig(config) ==
    IF config.present THEN [config EXCEPT !.toolConfig = FALSE] ELSE config

sanitizeRequest(request) ==
    [sanitized |->
        [contents |-> SanitizeContents(request.contents),
         config |-> IF request.config.present
                    THEN [AfterDeleteToolConfig(request.config)
                              EXCEPT !.stopSequences = FALSE]
                    ELSE request.config],
     original |->
        [contents |-> request.contents,
         config |-> AfterDeleteToolConfig(request.config)]]

\* parts.filter(...).map(...).join('\n'): the texts with "\n" between them
RECURSIVE JoinTexts(_)
JoinTexts(parts) ==
    IF parts = <<>> THEN <<>>
    ELSE IF Len(parts) = 1 THEN <<parts[1].text>>
    ELSE <<parts[1].text, "\n">> \o JoinTexts(Tail(parts))

\* convertToOllamaRequest: the messages built from request.contents
MessagesOf(requestContents) ==
    LET contents ==
            IF requestContents.shape = "value"
            THEN (IF requestContents.value.isString
                  THEN <<SnContent("user",
                                   <<SnText(requestContents.value.text)>>)>>
                  ELSE <<>>)
            ELSE IF requestContents.shape = "array"
            THEN (IF /\ Len(requestContents.items) > 0
                     /\ ~requestContents.items[1].isString
                     /\ requestContents.items[1].hasRole
                  THEN requestContents.items
                  ELSE <<SnContent("user", requestContents.items)>>)
            ELSE <<>>
        TextIn(content) ==
            IF content.hasParts
            THEN JoinTexts(SelectSeq(content.parts, IsTextPart))
            ELSE <<>>
        HasMessage(content) ==
            \E i \in 1..Len(TextIn(content)) : TextIn(content)[i] # ""
        speaking == SelectSeq(contents, HasMessage)
    IN  [i \in 1..Len(speaking) |->
            [role |-> IF speaking[i].role \in {"model", "assistant"}
                      THEN "assistant" ELSE "user",
             content |-> TextIn(speaking[i])]]

SnParts ==
    {<<SnText("a")>>, <<SnString("a")>>, <<SnText("a"), SnInlineData, SnText("b")>>,
     <<SnInlineData>>, <<SnString("a"), SnText("b")>>}

SnContents ==
    {[shape |-> "undefined"], [shape |-> "value", value |-> SnString("a")]}
    \cup {[shape |-> "value", value |-> SnContent("user", p)] : p \in SnParts}
    \cup {[shape |-> "array", items |-> p] : p \in SnParts}
    \cup {[shape |-> "array", items |-> <<SnContent("user", p)>>] : p \in SnParts}
    \cup {[shape |-> "array",
           items |-> <<SnContent("user", p), SnContent("model", <<SnText("c")>>)>>] :
             p \in SnParts}

SnConfigs ==
    {[present |-> FALSE, toolConfig |-> FALSE, stopSequences |-> FALSE]}
    \cup {[present |-> TRUE, toolConfig |-> t, stopSequences |-> s] :
              t \in BOOLEAN, s \in BOOLEAN}

SnInit ==
    /\ snRequest \in {[contents |-> c, config |-> g] :
                          c \in SnContents, g \in SnConfigs}
    /\ snAfter = snRequest
    /\ snOut = [kind |-> "undefined"]
    /\ snMessages = <<>>
    /\ snPc = "input"

\* OllamaConverter.sanitizeRequest(request)
SanitizeRequest ==
    /\ snPc = "input"
    /\ snOut' = sanitizeRequest(snRequest).sanitized
    /\ snAfter' = sanitizeRequest(snRequest).original
    /\ snPc' = "sanitized"
    /\ UNCHANGED <<snRequest, snMessages>>

\* the client builds the messages of the chat request from the sanitized
\* request
ConvertContents ==
    /\ snPc = "sanitized"
    /\ snMessages' = MessagesOf(snOut.contents)
    /\ snPc' = "converted"
    /\ UNCHANGED <<snRequest, snAfter, snOut>>

InitSanitize ==
    SnInit /\ TrIdle /\ RvIdle /\ RqIdle /\ StIdle /\ OgIdle /\ DsIdle /\ OpIdle /\ CtIdle /\ DgIdle

NextSanitize ==
    (SanitizeRequest \/ ConvertContents)
        /\ UNCHANGED <<trVars, rvVars, rqVars, stVars, ogVars, dsVars, opVars, ctVars, dgVars>>

SpecSanitize ==
    InitSanitize /\ [][NextSanitize]_vars

\* the texts of a list of parts: its strings and the text of its text
\* parts, in order
RECURSIVE TextsOfParts(_)
TextsOfParts(parts) ==
    IF parts = <<>> THEN <<>>
    ELSE (IF IsTextPart(Head(parts)) THEN <<Head(parts).text>> ELSE <<>>)
             \o TextsOfParts(Tail(parts))

\* the texts of the contents of a request, for a string, a list of parts
\* and a content or list of contents
RECURSIVE TextsOfItems(_)
TextsOfItems(items) ==
    IF items = <<>> THEN <<>>
    ELSE (IF IsTextPart(Head(items)) THEN <<Head(items).text>> ELSE <<>>)
             \o TextsOfParts(Head(items).parts)
             \o TextsOfItems(Tail(items))

TextsOfContents(contents) ==
    CASE contents.shape = "undefined" -> <<>>
      [] contents.shape = "value" -> TextsOfItems(<<contents.value>>)
      [] contents.shape = "array" -> TextsOfItems(contents.items)

RECURSIVE MessageTexts(_)
MessageTexts(messages) ==
    IF messages = <<>> THEN <<>>
    ELSE LET IsText(t) == t # "\n"
         IN  SelectSeq(Head(messages).content, IsText)
                 \o MessageTexts(Tail(messages))

\* C29: the sanitized request holds every text part of the request's
\* contents, in order, for a string, a list of parts and a list of
\* contents; the messages built from it hold these texts; and the
\* caller's request object is as it was before the call.
C29_TextKeptAndOriginalUnchanged ==
    /\ snPc \in {"sanitized", "converted"} =>
           /\ TextsOfContents(snOut.contents) = TextsOfContents(snRequest.contents)
           /\ snAfter = snRequest
    /\ snPc = "converted" =>
           MessageTexts(snMessages) = TextsOfContents(snRequest.contents)

(***************************************************************************)
(* The Ollama configuration dialog (OllamaConfigDialog).  A handler runs   *)
(* with the state of the render it was created in: a value it sets is in   *)
(* the state only after the handler has returned, and what it reads after  *)
(* setting it is the value of that render.  The part of an asynchronous    *)
(* handler after an await is an action of its own and reads the values     *)
(* the handler was created with.  onComplete and onCancel close the        *)
(* dialog.                                                                 *)
(***************************************************************************)
M_llama2 ==
    <<"l", "l", "a", "m", "a", "2">>

M_codellama ==
    <<"c", "o", "d", "e", "l", "l", "a", "m", "a">>

M_phi ==
    <<"p", "h", "i">>

M_neural_chat ==
    <<"n", "e", "u", "r", "a", "l", "-", "c", "h", "a", "t">>

M_qwen_coder_32b ==
    <<"q", "w", "e", "n", "2", ".", "5", "-", "c", "o", "d", "e", "r", ":", "3", "2", "b">>

FallbackModels ==
    <<M_llama2, B_mistral, M_codellama, M_phi, M_neural_chat>>

U_localhost ==
    <<"h", "t", "t", "p", ":", "/", "/", "l", "o", "c", "a", "l", "h", "o", "s", "t",
      ":", "1", "1", "4", "3", "4">>

\* config.recommendedTimeout of the entries of MODEL_CAPABILITIES, in the
\* order of the table
RECOMMENDED_TIMEOUT ==
    <<60000, 45000, 30000, 45000, 35000, 30000, 50000, 55000, 40000, 35000,
      30000, 35000, 40000>>

\* getModelCapabilities(modelName).config?.recommendedTimeout, 0 for
\* undefined
ConfigRecommendedTimeout(modelName) ==
    LET normalizedName == normalizeModelName(modelName)
        Own(key) ==
            IF key \in OwnKeys
            THEN RECOMMENDED_TIMEOUT[CHOOSE i \in 1..Len(MODEL_CAPABILITIES) :
                                         MODEL_CAPABILITIES[i][1] = key]
            ELSE 0
    IN  IF TableGet(modelName).kind # "undefined"
        THEN Own(modelName)
        ELSE IF TableGet(normalizedName).kind # "undefined"
        THEN Own(normalizedName)
        ELSE IF \E i \in 1..Len(MODEL_CAPABILITIES) :
                    FamilyMatch(modelName, normalizedName, MODEL_CAPABILITIES[i][1])
        THEN RECOMMENDED_TIMEOUT[
                 CHOOSE i \in 1..Len(MODEL_CAPABILITIES) :
                     /\ FamilyMatch(modelName, normalizedName, MODEL_CAPABILITIES[i][1])
                     /\ \A j \in 1..(i - 1) :
                            ~FamilyMatch(modelName, normalizedName, MODEL_CAPABILITIES[j][1])]
        ELSE 0

getModelRecommendedTimeout(modelName) ==
    IF ConfigRecommendedTimeout(modelName) # 0
    THEN ConfigRecommendedTimeout(modelName)
    ELSE 30000

\* Array.prototype.indexOf
indexOf(array, element) ==
    IF \E i \in 1..Len(array) : array[i] = element
    THEN (CHOOSE i \in 1..Len(array) :
              /\ array[i] = element
              /\ \A j \in 1..(i - 1) : array[j] # element) - 1
    ELSE -1

\* array[index], the first element at index 0
At(array, index) ==
    array[index + 1]

RECURSIVE NumberToString(_)
\* (n).toString() of a natural number
NumberToString(n) ==
    IF n < 10 THEN <<DigitChar(n)>>
    ELSE NumberToString(n \div 10) \o <<DigitChar(n % 10)>>

RECURSIVE DigitPrefix(_)
DigitPrefix(s) ==
    IF s = <<>> \/ ~IsDigit(Head(s)) THEN <<>>
    ELSE <<Head(s)>> \o DigitPrefix(Tail(s))

RECURSIVE ValueOfDigits(_)
ValueOfDigits(digits) ==
    IF digits = <<>> THEN 0
    ELSE 10 * ValueOfDigits(Front(digits))
             + (CHOOSE d \in 0..9 : DigitChar(d) = digits[Len(digits)])

\* parseInt(s, 10): the number its leading digits spell, or NaN
parseInt(s) ==
    LET digits == DigitPrefix(Trim(s))
    IN  IF digits = <<>> THEN [nan |-> TRUE, value |-> 0]
        ELSE [nan |-> FALSE, value |-> ValueOfDigits(digits)]

\* buildFinalConfig(): the fields the dialog can change; the others are
\* those of the initial configuration
buildFinalConfig(configState) ==
    [baseUrl |-> configState.baseUrl,
     defaultModel |-> configState.selectedModel,
     timeout |-> configState.timeout]

MaxUrlLength ==
    2

MaxTimeoutDigits ==
    3

UrlChars ==
    {"v", Blank}

TimeoutDigits ==
    {"0", "5"}

InitialBaseUrls ==
    {<<"u">>}

InitialModels ==
    {M_qwen_coder_32b, B_mistral}

\* the model lists a server can answer with
ServerModelLists ==
    {<<>>, <<M_qwen_coder_32b, B_mistral>>, <<B_llama32, B_mistral>>}

\* the text that comes with the Enter key
ReturnInputs ==
    {<<>>, <<"y">>, <<"n">>}

ValidationOutcomes ==
    {"invalid", "valid", "warnings", "threw"}

\* the dialog as it is mounted: useState(...) with initialConfig merged
\* over the defaults
DgInit ==
    /\ dgStep = "baseUrl"
    /\ dgIsLoading = FALSE
    /\ dgError = "null"
    /\ dgWarnings = "none"
    /\ dgConfigState \in {[baseUrl |-> u, selectedModel |-> m,
                           availableModels |-> <<>>, timeout |-> 120000] :
                              u \in InitialBaseUrls, m \in InitialModels}
    /\ dgBaseUrlInput = dgConfigState.baseUrl
    /\ dgSelectedModelIndex = 0
    /\ dgTimeoutInput = NumberToString(dgConfigState.timeout \div 1000)
    /\ dgPending = [kind |-> "none"]
    /\ dgSelected = <<>>
    /\ dgResult = [kind |-> "open"]

DgAcceptsKeys ==
    dgResult.kind = "open" /\ ~dgIsLoading

\* useInput: key.escape
KeyEscape ==
    /\ dgResult.kind = "open"
    /\ dgResult' = [kind |-> "cancelled"]
    /\ UNCHANGED <<dgStep, dgIsLoading, dgError, dgWarnings, dgConfigState,
                   dgBaseUrlInput, dgSelectedModelIndex, dgTimeoutInput,
                   dgPending, dgSelected>>

\* handleBaseUrlInput, key.return, and proceedToModelSelection up to its
\* first await: configState is the one of the render
BaseUrlReturn ==
    /\ DgAcceptsKeys /\ dgStep = "baseUrl"
    /\ LET finalUrl == IF Trim(dgBaseUrlInput) # <<>>
                       THEN Trim(dgBaseUrlInput) ELSE U_localhost
       IN  dgConfigState' = [dgConfigState EXCEPT !.baseUrl = finalUrl]
    /\ dgIsLoading' = TRUE
    /\ dgError' = "null"
    /\ dgPending' = [kind |-> "models",
                     baseUrl |-> dgConfigState.baseUrl,
                     selectedModel |-> dgConfigState.selectedModel]
    /\ UNCHANGED <<dgStep, dgWarnings, dgBaseUrlInput, dgSelectedModelIndex,
                   dgTimeoutInput, dgSelected, dgResult>>

\* handleBaseUrlInput, key.backspace
BaseUrlBackspace ==
    /\ DgAcceptsKeys /\ dgStep = "baseUrl"
    /\ dgBaseUrlInput' = Front(dgBaseUrlInput)
    /\ dgError' = "null"
    /\ UNCHANGED <<dgStep, dgIsLoading, dgWarnings, dgConfigState,
                   dgSelectedModelIndex, dgTimeoutInput, dgPending,
                   dgSelected, dgResult>>

\* handleBaseUrlInput, a character
BaseUrlType ==
    /\ DgAcceptsKeys /\ dgStep = "baseUrl"
    /\ Len(dgBaseUrlInput) < MaxUrlLength
    /\ \E input \in UrlChars :
           dgBaseUrlInput' = Append(dgBaseUrlInput, input)
    /\ dgError' = "null"
    /\ UNCHANGED <<dgStep, dgIsLoading, dgWarnings, dgConfigState,
                   dgSelectedModelIndex, dgTimeoutInput, dgPending,
                   dgSelected, dgResult>>

\* proceedToModelSelection after getAvailableModels() has answered
ModelsFetched ==
    /\ dgResult.kind = "open" /\ dgPending.kind = "models"
    /\ \E models \in ServerModelLists :
           LET availableModels == IF Len(models) = 0 THEN FallbackModels ELSE models
           IN  /\ dgWarnings' = IF Len(models) = 0 THEN "noModels" ELSE dgWarnings
               /\ dgConfigState' =
                      [dgConfigState EXCEPT
                          !.availableModels = availableModels,
                          !.selectedModel =
                              IF indexOf(availableModels, dgConfigState.selectedModel) >= 0
                              THEN dgConfigState.selectedModel
                              ELSE At(availableModels, 0)]
               /\ dgSelectedModelIndex' =
                      IF indexOf(availableModels, dgPending.selectedModel) >= 0
                      THEN indexOf(availableModels, dgPending.selectedModel)
                      ELSE 0
    /\ dgStep' = "modelSelection"
    /\ dgIsLoading' = FALSE
    /\ dgPending' = [kind |-> "none"]
    /\ UNCHANGED <<dgError, dgBaseUrlInput, dgTimeoutInput, dgSelected, dgResult>>

\* proceedToModelSelection, catch: the server could not be reached
ModelsFetchFailed ==
    /\ dgResult.kind = "open" /\ dgPending.kind = "models"
    /\ dgConfigState' =
           [dgConfigState EXCEPT
               !.availableModels = FallbackModels,
               !.selectedModel =
                   IF indexOf(FallbackModels, dgConfigState.selectedModel) >= 0
                   THEN dgConfigState.selectedModel
                   ELSE At(FallbackModels, 0)]
    /\ dgSelectedModelIndex' = 0
    /\ dgWarnings' = "noConnection"
    /\ dgStep' = "modelSelection"
    /\ dgIsLoading' = FALSE
    /\ dgPending' = [kind |-> "none"]
    /\ UNCHANGED <<dgError, dgBaseUrlInput, dgTimeoutInput, dgSelected, dgResult>>

\* RadioButtonSelect onSelect(model) and proceedToTimeoutConfig:
\* selectedModelIndex is the one of the render
SelectModel ==
    /\ DgAcceptsKeys /\ dgStep = "modelSelection"
    /\ \E model \in {dgConfigState.availableModels[i] :
                         i \in 1..Len(dgConfigState.availableModels)} :
           /\ dgSelected' = model
           /\ dgSelectedModelIndex' = indexOf(dgConfigState.availableModels, model)
    /\ LET selectedModel == At(dgConfigState.availableModels, dgSelectedModelIndex)
           recommendedTimeout == getModelRecommendedTimeout(selectedModel)
       IN  /\ dgConfigState' = [dgConfigState EXCEPT
                                   !.selectedModel = selectedModel,
                                   !.timeout = recommendedTimeout]
           /\ dgTimeoutInput' = NumberToString(recommendedTimeout \div 1000)
    /\ dgStep' = "timeoutConfig"
    /\ UNCHANGED <<dgIsLoading, dgError, dgWarnings, dgBaseUrlInput, dgPending,
                   dgResult>>

\* handleTimeoutInput, key.return
TimeoutReturn ==
    /\ DgAcceptsKeys /\ dgStep = "timeoutConfig"
    /\ LET timeoutSeconds ==
               IF Trim(dgTimeoutInput) = <<>>
               THEN [nan |-> FALSE,
                     value |-> getModelRecommendedTimeout(dgConfigState.selectedModel)
                                   \div 1000]
               ELSE parseInt(dgTimeoutInput)
       IN  IF ~timeoutSeconds.nan /\ timeoutSeconds.value > 0
           THEN /\ dgConfigState' = [dgConfigState EXCEPT
                                        !.timeout = timeoutSeconds.value * 1000]
                /\ dgStep' = "testing"
                /\ UNCHANGED dgError
           ELSE /\ dgError' = "timeout"
                /\ UNCHANGED <<dgConfigState, dgStep>>
    /\ UNCHANGED <<dgIsLoading, dgWarnings, dgBaseUrlInput, dgSelectedModelIndex,
                   dgTimeoutInput, dgPending, dgSelected, dgResult>>

\* handleTimeoutInput, key.backspace
TimeoutBackspace ==
    /\ DgAcceptsKeys /\ dgStep = "timeoutConfig"
    /\ dgTimeoutInput' = Front(dgTimeoutInput)
    /\ dgError' = "null"
    /\ UNCHANGED <<dgStep, dgIsLoading, dgWarnings, dgConfigState, dgBaseUrlInput,
                   dgSelectedModelIndex, dgPending, dgSelected, dgResult>>

\* handleTimeoutInput, a digit
TimeoutType ==
    /\ DgAcceptsKeys /\ dgStep = "timeoutConfig"
    /\ Len(dgTimeoutInput) < MaxTimeoutDigits
    /\ \E input \in TimeoutDigits :
           dgTimeoutInput' = Append(dgTimeoutInput, input)
    /\ dgError' = "null"
    /\ UNCHANGED <<dgStep, dgIsLoading, dgWarnings, dgConfigState, dgBaseUrlInput,
                   dgSelectedModelIndex, dgPending, dgSelected, dgResult>>

\* handleTestingInput, key.return, and performConnectionTest up to its
\* await
TestingReturn ==
    /\ DgAcceptsKeys /\ dgStep = "testing"
    /\ \E input \in ReturnInputs :
           IF input = <<"y">> \/ input = <<>>
           THEN /\ dgIsLoading' = TRUE
                /\ dgError' = "null"
                /\ dgWarnings' = "none"
                /\ dgPending' = [kind |-> "validate",
                                 config |-> buildFinalConfig(dgConfigState)]
                /\ UNCHANGED dgStep
           ELSE /\ dgStep' = "summary"
                /\ UNCHANGED <<dgIsLoading, dgError, dgWarnings, dgPending>>
    /\ UNCHANGED <<dgConfigState, dgBaseUrlInput, dgSelectedModelIndex,
                   dgTimeoutInput, dgSelected, dgResult>>

\* performConnectionTest after validateOllamaSetup(testConfig) has settled
ValidationSettled ==
    /\ dgResult.kind = "open" /\ dgPending.kind = "validate"
    /\ \E outcome \in ValidationOutcomes :
           /\ dgError' = CASE outcome = "invalid" -> "validation"
                           [] outcome = "threw" -> "test"
                           [] OTHER -> dgError
           /\ dgWarnings' = IF outcome = "warnings" THEN "validation" ELSE dgWarnings
           /\ dgStep' = IF outcome \in {"valid", "warnings"} THEN "summary" ELSE dgStep
    /\ dgIsLoading' = FALSE
    /\ dgPending' = [kind |-> "none"]
    /\ UNCHANGED <<dgConfigState, dgBaseUrlInput, dgSelectedModelIndex,
                   dgTimeoutInput, dgSelected, dgResult>>

\* handleSummaryInput, key.return: completeConfiguration() or onCancel()
SummaryReturn ==
    /\ DgAcceptsKeys /\ dgStep = "summary"
    /\ \E input \in ReturnInputs :
           dgResult' = IF input = <<"y">> \/ input = <<>>
                       THEN [kind |-> "completed",
                             config |-> buildFinalConfig(dgConfigState)]
                       ELSE [kind |-> "cancelled"]
    /\ UNCHANGED <<dgStep, dgIsLoading, dgError, dgWarnings, dgConfigState,
                   dgBaseUrlInput, dgSelectedModelIndex, dgTimeoutInput,
                   dgPending, dgSelected>>

InitDialog ==
    DgInit /\ TrIdle /\ RvIdle /\ RqIdle /\ StIdle /\ OgIdle /\ DsIdle /\ OpIdle /\ CtIdle /\ SnIdle

NextDialog ==
    (\/ KeyEscape
     \/ BaseUrlReturn
     \/ BaseUrlBackspace
     \/ BaseUrlType
     \/ ModelsFetched
     \/ ModelsFetchFailed
     \/ SelectModel
     \/ TimeoutReturn
     \/ TimeoutBackspace
     \/ TimeoutType
     \/ TestingReturn
     \/ ValidationSettled
     \/ SummaryReturn)
        /\ UNCHANGED <<trVars, rvVars, rqVars, stVars, ogVars, dsVars, opVars, ctVars, snVars>>

SpecDialog ==
    InitDialog /\ [][NextDialog]_vars

\* C30: the model list is fetched from the base URL the user has just
\* confirmed; from the timeout step on the model whose timeout is proposed,
\* and the model of the configuration passed to onComplete, is the model
\* the user chose in the list.
C30_ActsOnLastEnteredValues ==
    /\ dgPending.kind = "models" => dgPending.baseUrl = dgConfigState.baseUrl
    /\ dgStep \in {"timeoutConfig", "testing", "summary"} =>
           dgConfigState.selectedModel = dgSelected
    /\ dgResult.kind = "completed" => dgResult.config.defaultModel = dgSelected

====
